---------------------------- MODULE Spec2Model ----------------------------
(***************************************************************************)
(* Model of the routing layer of AIFoundry-multiagent-A2A:                 *)
(*   src/routing_agent/routing_agent.py  (class RoutingAgent)              *)
(* One RoutingAgent instance, its registry of remote agents, its context   *)
(* state, the current thread and one process_user_message call at a time.  *)
(* The backing LLM runtime (threads, messages, runs) and the remote agents *)
(* are the environment: every answer they can give is a nondeterministic   *)
(* choice.  src/routing_agent/remote_agent_connection.py is read on its    *)
(* HEAD side of the unresolved merge (the side that defines card_url).     *)
(***************************************************************************)
EXTENDS Integers, Sequences, FiniteSets, TLC

(***************************************************************************)
(* Bounds of the model                                                     *)
(***************************************************************************)
\* longest list of configured remote agent addresses
MaxAddresses == 2
\* number of remote dispatches the environment lets one model run perform
MaxDispatches == 2
\* number of threads the backing runtime creates in one model run
MaxThreads == 2
\* longest sequence of events one downstream model stream produces
MaxStream == 3

(***************************************************************************)
(* Program constants                                                       *)
(***************************************************************************)
\* routing_agent.py:640  max_iterations = 60
max_iterations == 60

\* the value Python's None
None == [kind |-> "None"]

\* the value of call before any call has finished
NoCall == [op |-> "none"]

\* no HTTP request has arrived; no response has been made
NoRequest == [endpoint |-> "none", stage |-> "none"]
NoResponse == [status_code |-> "none"]

\* thread ids are positive numbers; NoThread stands for None (no thread_id
\* argument, no current thread)
NoThread == 0

\* names a resolved agent card can carry
Names == {"SportsResultsAgent", "SportsNewsAgent"}
\* agent_name arguments send_message is called with
AgentNameArgs == Names \cup {"WeatherAgent"}
\* task arguments
Tasks == {"who won"}
\* the i-th configured address: http://localhost:<port>, one port per agent
Address(i) == 10000 + i
\* what resolving one address (card fetch + connection construction) gives:
\* a card name, httpx.ConnectError, or any other exception
ResolutionOutcomes == Names \cup {"ConnectError", "OtherError"}

\* sequences over S of length at most n
RECURSIVE SeqsUpTo(_, _)
SeqsUpTo(S, n) ==
    IF n = 0 THEN {<<>>}
    ELSE LET shorter == SeqsUpTo(S, n - 1)
         IN  shorter \cup {Append(s, x) : s \in {t \in shorter : Len(t) = n - 1}, x \in S}

\* the elements of a sequence
Range(s) == {s[i] : i \in 1..Len(s)}

(***************************************************************************)
(* Python dict, insertion ordered: a sequence of key/value pairs           *)
(***************************************************************************)
DictHas(d, k) == \E i \in 1..Len(d) : d[i].key = k

DictKeys(d) == [i \in 1..Len(d) |-> d[i].key]

DictGet(d, k) == d[CHOOSE i \in 1..Len(d) : d[i].key = k].value

\* d[k] = v : an existing key keeps its position
DictSet(d, k, v) ==
    IF DictHas(d, k)
    THEN [i \in 1..Len(d) |-> IF d[i].key = k THEN [key |-> k, value |-> v] ELSE d[i]]
    ELSE Append(d, [key |-> k, value |-> v])

(***************************************************************************)
(* context.state: a dict keyed by strings; order is never observed         *)
(***************************************************************************)
StateSet(s, k, v) == [x \in DOMAIN s \cup {k} |-> IF x = k THEN v ELSE s[x]]

EmptyState == [x \in {} |-> 0]

VARIABLES
    addresses,                 \* remote_agent_addresses given to create()
    phase,                     \* "constructed" | "initialized"
    resolution,                \* outcome of each address resolution (history)
    remote_agent_connections,  \* self.remote_agent_connections
    cards,                     \* self.cards
    azure_agent,               \* self.azure_agent: None or the created agent
    state,                     \* self.context.state
    current_thread,            \* self.current_thread: NoThread or a thread id
    threads,                   \* thread ids that exist in the backing runtime
    uuid_next,                 \* source of uuid.uuid4(): next unused value
    pc,                        \* process_user_message: "idle" | "polling" | "returned"
    thread,                    \* process_user_message local: thread id
    run,                       \* process_user_message local: last fetched run
    iteration,                 \* process_user_message local: iteration
    call,                      \* the last finished call: operation, inputs, result
    dispatches,                \* remote dispatches so far, oldest first (history)
    polls,                     \* status polls made by the current call (history)
    handled,                   \* the run object held was already given to
                               \* _handle_required_actions (history)
    invocations,               \* process_user_message calls started (history)
    initialized,               \* executor: self._initialized
    agent,                     \* executor: self.agent.agent, None or the Agent
    event_queue,               \* executor: events enqueued by the last execute
    request,                   \* HTTP: the request being handled
    response,                  \* HTTP: the response to POST /chat
    events,                    \* HTTP: events yielded by generate_response_stream
    status_queues,             \* service: StatusQueueManager.status_queues
    handlers                   \* service: the frame of each request in flight

vars == <<addresses, phase, resolution, remote_agent_connections, cards,
          azure_agent, state, current_thread, threads, uuid_next, pc, thread,
          run, iteration, call, dispatches, polls, handled,
          invocations, initialized, agent, event_queue, request, response, events,
          status_queues, handlers>>

registryVars == <<addresses, phase, resolution, remote_agent_connections, cards>>
frameVars == <<pc, thread, run, iteration, polls, handled, invocations>>
executorVars == <<initialized, agent, event_queue>>
serviceVars == <<status_queues, handlers>>
httpVars == <<request, response, events, serviceVars>>

\* the requests the application serves at the same time on one event loop
RequestIds == {"r1", "r2"}

\* the frame of one request: the endpoint, where its coroutines stand, the
\* local thread of process_user_message, the dispatch it awaits (an index
\* of dispatches, 0 for none), the value process_user_message gave, the
\* thread ids given to submit_tool_outputs next to the run's thread, the
\* events the generator yielded, the thread_id of the /chat response, and
\* the statuses left in the queue when it was removed
Handler(endpoint, at) ==
    [endpoint |-> endpoint, pc |-> at, thread |-> NoThread, inflight |-> 0,
     ret |-> None, submitted |-> <<>>, sse |-> <<>>, reported |-> None,
     undelivered |-> <<>>]

(***************************************************************************)
(* __init__ (routing_agent.py:93-119)                                      *)
(***************************************************************************)
Init ==
    /\ addresses \in {[i \in 1..n |-> Address(i)] : n \in 0..MaxAddresses}
    /\ phase = "constructed"
    /\ resolution = <<>>
    /\ remote_agent_connections = <<>>
    /\ cards = <<>>
    /\ azure_agent = None
    /\ state = EmptyState
    /\ current_thread = NoThread
    /\ threads = {}
    /\ uuid_next = 1
    /\ pc = "idle"
    /\ thread = NoThread
    /\ run = None
    /\ iteration = 0
    /\ call = NoCall
    /\ dispatches = <<>>
    /\ polls = 0
    /\ handled = FALSE
    /\ invocations = 0
    /\ initialized = FALSE
    /\ agent = None
    /\ event_queue = <<>>
    /\ request = NoRequest
    /\ response = NoResponse
    /\ events = <<>>
    /\ status_queues = EmptyState
    /\ handlers = [request_id \in RequestIds |-> Handler("none", "idle")]

(***************************************************************************)
(* _async_init_components (routing_agent.py:145-207)                       *)
(***************************************************************************)
\* one pass of the for loop over one address: on success the connection and
\* the card are stored under card.name; both except clauses only log
InitStep_clears(reg, address, outcome) ==
    IF outcome \in Names
    THEN [conns |-> DictSet(reg.conns, outcome, address),
          cards |-> DictSet(reg.cards, outcome, address)]
    ELSE [conns |-> <<>>, cards |-> <<>>]

InitStep_connection_only(reg, address, outcome) ==
    IF outcome \in Names
    THEN [conns |-> DictSet(reg.conns, outcome, address),
          cards |-> reg.cards]
    ELSE reg

InitStep(reg, address, outcome) ==
    IF outcome \in Names
    THEN [conns |-> DictSet(reg.conns, outcome, address),
          cards |-> DictSet(reg.cards, outcome, address)]
    ELSE reg

RECURSIVE InitLoop(_, _, _, _)
InitLoop(reg, addrs, outs, i) ==
    IF i > Len(addrs) THEN reg
    ELSE InitLoop(InitStep(reg, addrs[i], outs[i]), addrs, outs, i + 1)

AsyncInitComponents ==
    /\ phase = "constructed"
    /\ \E outs \in [1..Len(addresses) -> ResolutionOutcomes] :
         LET reg == InitLoop([conns |-> remote_agent_connections, cards |-> cards],
                             addresses, outs, 1)
         IN  /\ resolution' = outs
             /\ remote_agent_connections' = reg.conns
             /\ cards' = reg.cards
    /\ phase' = "initialized"
    /\ UNCHANGED <<addresses, azure_agent, state, current_thread, threads,
                   uuid_next, call, dispatches>>
    /\ UNCHANGED frameVars
    /\ UNCHANGED executorVars
    /\ UNCHANGED httpVars

\* the instance create() returned is at rest: no process_user_message call
\* is in progress ("idle": none was made yet, "returned": one has returned)
Ready == phase = "initialized" /\ pc # "polling"

(***************************************************************************)
(* create_agent (routing_agent.py:221-296)                                 *)
(***************************************************************************)
\* the tools list handed to agents_client.create_agent (lines 243-267)
AgentTools_always(conns) == {"send_message"}

AgentTools(conns) == IF Len(conns) > 0 THEN {"send_message"} ELSE {}

\* get_root_instruction's routing_instructions (lines 341-356): keyed on cards
RoutingInstructions(cds) ==
    IF Len(cds) > 0 THEN "use send_message" ELSE "do NOT use send_message"

\* agents_client.create_agent either returns the agent or raises; the except
\* clause re-raises and leaves self.azure_agent as it was
CreateAgent ==
    /\ Ready
    /\ azure_agent = None
    /\ \E ok \in BOOLEAN :
         IF ok
         THEN /\ azure_agent' = [kind |-> "Agent",
                                 tools |-> AgentTools(remote_agent_connections),
                                 instructions |-> RoutingInstructions(cards)]
              /\ call' = [op |-> "create_agent", ret |-> [kind |-> "Agent"]]
         ELSE /\ azure_agent' = azure_agent
              /\ call' = [op |-> "create_agent",
                          ret |-> [kind |-> "raised", exc |-> "create_agent"]]
    /\ UNCHANGED <<state, current_thread, threads, uuid_next, dispatches>>
    /\ UNCHANGED registryVars
    /\ UNCHANGED frameVars
    /\ UNCHANGED executorVars
    /\ UNCHANGED httpVars

(***************************************************************************)
(* initialize_session (routing_agent.py:382-388)                           *)
(***************************************************************************)
\* the context state and uuid source after initialize_session()
initialize_session_remints(st, uuid) ==
    [state |-> StateSet(StateSet(st, "session_id", uuid), "session_active", TRUE),
     uuid_next |-> uuid + 1]

initialize_session(st, uuid) ==
    IF "session_active" \notin DOMAIN st \/ ~st["session_active"]
    THEN IF "session_id" \notin DOMAIN st
         THEN [state |-> StateSet(StateSet(st, "session_id", uuid),
                                  "session_active", TRUE),
               uuid_next |-> uuid + 1]
         ELSE [state |-> StateSet(st, "session_active", TRUE), uuid_next |-> uuid]
    ELSE [state |-> st, uuid_next |-> uuid]

InitializeSession ==
    /\ Ready
    /\ LET r == initialize_session(state, uuid_next)
       IN  /\ state' = r.state
           /\ uuid_next' = r.uuid_next
    /\ call' = [op |-> "initialize_session", ret |-> None,
                before |-> state]
    /\ UNCHANGED <<azure_agent, current_thread, threads, dispatches>>
    /\ UNCHANGED registryVars
    /\ UNCHANGED frameVars
    /\ UNCHANGED executorVars
    /\ UNCHANGED httpVars

(***************************************************************************)
(* check_active_agent (routing_agent.py:370-380)                           *)
(***************************************************************************)
check_active_agent(st) ==
    IF /\ "session_id" \in DOMAIN st
       /\ "session_active" \in DOMAIN st
       /\ st["session_active"]
       /\ "active_agent" \in DOMAIN st
    THEN st["active_agent"]
    ELSE "None"

(***************************************************************************)
(* send_message (routing_agent.py:404-567)                                 *)
(***************************************************************************)
\* what the remote connection's send_message gives for one dispatch:
\*   "task"              success response whose result is a Task with an artifact
\*   "task_no_artifacts" success response whose Task has no artifact: line 526
\*                       indexes artifacts[0] and raises IndexError
\*   "non_success"       a response whose root is no SendMessageSuccessResponse
\*   "non_task"          a success response whose result is no Task
\*   "transport_error"   every endpoint attempt failed: the exception is raised
RemoteOutcomes == {"task", "task_no_artifacts", "non_success", "non_task",
                   "transport_error"}

\* lines 425-428
NoRemoteAgentsReturn_raises == [kind |-> "raised", exc |-> "ValueError"]

NoRemoteAgentsReturn == [kind |-> "dict", keys |-> {"error", "message"}]

\* line 431: list(self.remote_agent_connections.keys())
AvailableAgents_with_requested(conns, agent_name) == Append(DictKeys(conns), agent_name)

AvailableAgents(conns, agent_name) == DictKeys(conns)

\* lines 434-437
AgentNotFoundReturn(conns, agent_name) ==
    [kind |-> "dict", keys |-> {"error", "available_agents"},
     available_agents |-> AvailableAgents(conns, agent_name)]

\* lines 452-466: the ids of the payload; a missing id is minted with uuid4,
\* in the order task_id, context_id, message_id
PayloadIds(st, uuid) ==
    LET hasT == "task_id" \in DOMAIN st
        hasC == "context_id" \in DOMAIN st
        hasM == /\ "input_message_metadata" \in DOMAIN st
                /\ "message_id" \in DOMAIN st["input_message_metadata"]
        u1   == IF hasT THEN uuid ELSE uuid + 1
        u2   == IF hasC THEN u1 ELSE u1 + 1
        u3   == IF hasM THEN u2 ELSE u2 + 1
    IN  [task_id    |-> IF hasT THEN st["task_id"] ELSE uuid,
         context_id |-> IF hasC THEN st["context_id"] ELSE u1,
         message_id |-> IF hasM THEN st["input_message_metadata"]["message_id"] ELSE u2,
         uuid_next  |-> u3]

\* lines 439-440 and what the call leaves in context.state when it is over:
\* active_agent is stored; line 523 rebinds the local name state, nothing
\* else is written to the context
StateAfterDispatch(st, agent_name, ids) == StateSet(st, "active_agent", agent_name)

\* lines 503-567: the value returned for what the remote answered
DispatchReturn(outcome, ids) ==
    CASE outcome = "transport_error"   -> [kind |-> "raised", exc |-> "transport"]
      [] outcome = "non_success"       -> None
      [] outcome = "non_task"          -> None
      [] outcome = "task_no_artifacts" -> [kind |-> "raised", exc |-> "IndexError"]
      [] outcome = "task"              -> [kind |-> "Task", id |-> ids.task_id,
                                           contextId |-> ids.context_id]

\* lines 443-444 and 564-565: the calls of status_callback one dispatch
\* makes, with the callback set as dependencies.py:76 sets it.  The returns of
\* lines 507 and 513 and the exceptions of lines 495 and 526 leave the method
\* before line 564
Callbacks(agent_name, outcome) ==
    <<[status_type |-> "agent_start", agent_name |-> agent_name]>>
    \o (IF outcome = "task"
        THEN <<[status_type |-> "agent_complete", agent_name |-> agent_name]>>
        ELSE <<>>)

\* the whole method: the value returned, the context state and uuid source
\* afterwards, and the remote dispatches made (none or one).  The test of
\* line 448 never fires: a RemoteAgentConnections object is truthy
send_message(conns, st, uuid, agent_name, task, outcome) ==
    IF Len(conns) = 0
    THEN [ret |-> NoRemoteAgentsReturn, state |-> st, uuid_next |-> uuid,
          dispatched |-> <<>>, callbacks |-> <<>>]
    ELSE IF ~DictHas(conns, agent_name)
    THEN [ret |-> AgentNotFoundReturn(conns, agent_name), state |-> st,
          uuid_next |-> uuid, dispatched |-> <<>>, callbacks |-> <<>>]
    ELSE LET ids == PayloadIds(StateSet(st, "active_agent", agent_name), uuid)
         IN  [ret |-> DispatchReturn(outcome, ids),
              state |-> StateAfterDispatch(st, agent_name, ids),
              uuid_next |-> ids.uuid_next,
              callbacks |-> Callbacks(agent_name, outcome),
              dispatched |-> << [agent |-> agent_name, task |-> task,
                                 taskId |-> ids.task_id,
                                 contextId |-> ids.context_id,
                                 messageId |-> ids.message_id,
                                 ok |-> DispatchReturn(outcome, ids).kind = "Task"] >>]

\* a direct call of send_message
SendMessage ==
    /\ Ready
    /\ \E agent_name \in AgentNameArgs, task \in Tasks, outcome \in RemoteOutcomes :
         LET r == send_message(remote_agent_connections, state, uuid_next,
                               agent_name, task, outcome)
         IN  /\ Len(dispatches) + Len(r.dispatched) <= MaxDispatches
             /\ (r.dispatched = <<>> => outcome = "task")
             /\ state' = r.state
             /\ uuid_next' = r.uuid_next
             /\ dispatches' = dispatches \o r.dispatched
             /\ call' = [op |-> "send_message", agent_name |-> agent_name,
                         registry |-> DictKeys(remote_agent_connections),
                         dispatched |-> Len(r.dispatched), outcome |-> outcome,
                         callbacks |-> r.callbacks, ret |-> r.ret]
    /\ UNCHANGED <<azure_agent, current_thread, threads>>
    /\ UNCHANGED registryVars
    /\ UNCHANGED frameVars
    /\ UNCHANGED executorVars
    /\ UNCHANGED httpVars

(***************************************************************************)
(* get_or_create_thread (routing_agent.py:298-331)                         *)
(***************************************************************************)
\* thread_id arguments: None, or an id (known to the runtime or not)
ThreadIdArgs == {NoThread} \cup (1..MaxThreads) \cup {99}

\* the id threads.create() gives: the runtime numbers its threads 1, 2, ...
NewThreadId(ths) == Cardinality(ths) + 1

\* line 304-317: the lookup is tried for a truthy thread_id only; get_ok says
\* whether threads.get answered (it cannot for a thread that does not exist)
LookupSucceeds(ths, thread_id, get_ok) ==
    thread_id # NoThread /\ thread_id \in ths /\ get_ok

\* lines 313-317 fall through to the creation
OnLookupFailure_raises(ths, create_ok) ==
    [ret |-> [kind |-> "raised", exc |-> "threads.get"], threads |-> ths]

OnLookupFailure(ths, create_ok) ==
    IF create_ok
    THEN [ret |-> [kind |-> "Thread", id |-> NewThreadId(ths)],
          threads |-> ths \cup {NewThreadId(ths)}]
    ELSE [ret |-> [kind |-> "raised", exc |-> "threads.create"], threads |-> ths]

\* the whole method: the value returned (or the exception), current_thread
\* and the runtime's threads afterwards
get_or_create_thread(cur, ths, thread_id, get_ok, create_ok) ==
    IF LookupSucceeds(ths, thread_id, get_ok)
    THEN [ret |-> [kind |-> "Thread", id |-> thread_id],
          current_thread |-> thread_id, threads |-> ths]
    ELSE LET r == OnLookupFailure(ths, create_ok)
         IN  [ret |-> r.ret,
              current_thread |-> IF r.ret.kind = "Thread" THEN r.ret.id ELSE cur,
              threads |-> r.threads]

GetOrCreateThread ==
    /\ Ready
    /\ \E thread_id \in ThreadIdArgs, get_ok \in BOOLEAN, create_ok \in BOOLEAN :
         LET r == get_or_create_thread(current_thread, threads, thread_id,
                                       get_ok, create_ok)
         IN  /\ Cardinality(r.threads) <= MaxThreads
             /\ (thread_id \notin threads => get_ok)
             /\ (LookupSucceeds(threads, thread_id, get_ok) => create_ok)
             /\ current_thread' = r.current_thread
             /\ threads' = r.threads
             /\ call' = [op |-> "get_or_create_thread", thread_id |-> thread_id,
                         before |-> threads, get_ok |-> get_ok,
                         create_ok |-> create_ok, ret |-> r.ret]
    /\ UNCHANGED <<azure_agent, state, uuid_next, dispatches>>
    /\ UNCHANGED registryVars
    /\ UNCHANGED frameVars
    /\ UNCHANGED executorVars
    /\ UNCHANGED httpVars

(***************************************************************************)
(* process_user_message (routing_agent.py:569-781) and                     *)
(* _handle_required_actions (routing_agent.py:783-834)                     *)
(***************************************************************************)
Str(tokens) == [kind |-> "str", text |-> tokens]

\* line 576
NotInitializedMsg ==
    Str(<<"Azure AI Agent not initialized. Please ensure the agent is properly created.">>)
\* lines 686-688
TimeoutMsg == Str(<<"Request timed out after 60 seconds. Please try again.">>)
\* line 771
NoResponseMsg == Str(<<"No response received from agent.">>)

\* run.status values: the three the while loop waits on (line 644), and the
\* terminal ones ("cancelled" stands for every terminal status that is
\* neither completed nor failed)
LiveStatuses == {"queued", "in_progress", "requires_action"}

\* run.last_error of a failed run: None, or an error with a code and a
\* message; words are the keywords of lines 695 and 734-735 that the text of
\* the error contains
RunError(code, message, words) ==
    [kind |-> "RunError", code |-> code, message |-> message, words |-> words]

LastErrors ==
    {None,
     RunError("rate_limit_exceeded", "Rate limit is exceeded.", {"rate limit"}),
     RunError("server_error", "Sorry, something went wrong.", {}),
     RunError("server_error", "You exceeded your current quota.", {"quota"}),
     RunError("server_error", "Requests are being throttled.", {"throttle"})}

\* a tool call: the function name and the agent_name its arguments give
\* ("not json": arguments json.loads rejects)
ToolCall(fn, args) == [fn |-> fn, args |-> args]

\* the tool_calls a requires_action run can carry
ToolCallLists ==
    {<<ToolCall("send_message", "SportsResultsAgent")>>,
     <<ToolCall("get_weather", "SportsResultsAgent")>>,
     <<ToolCall("send_message", "not json")>>,
     <<ToolCall("send_message", "SportsResultsAgent"),
       ToolCall("send_message", "SportsResultsAgent")>>,
     <<ToolCall("get_weather", "SportsResultsAgent"),
       ToolCall("send_message", "SportsResultsAgent")>>,
     <<ToolCall("send_message", "SportsResultsAgent"),
       ToolCall("send_message", "not json")>>}

Run(status, tool_calls, last_error) ==
    [status |-> status, tool_calls |-> tool_calls, last_error |-> last_error]

\* what runs.create and runs.get can answer
Runs ==
    {Run(st, <<>>, None) : st \in {"queued", "in_progress", "completed", "cancelled"}}
    \cup {Run("requires_action", tcs, None) : tcs \in ToolCallLists}
    \cup {Run("failed", <<>>, e) : e \in LastErrors}

\* thread messages: role and the values of text_messages
Msg(role, texts) == [role |-> role, texts |-> texts]

\* what messages.list(order=DESCENDING) can answer, newest first
Listing(msgs) == [kind |-> "listing", msgs |-> msgs]

Listings ==
    {Listing(<<>>),
     Listing(<<Msg("user", <<"q">>)>>),
     Listing(<<Msg("assistant", <<"a1">>), Msg("user", <<"q">>)>>),
     Listing(<<Msg("assistant", <<"a1", "a2">>), Msg("assistant", <<"old">>)>>),
     Listing(<<Msg("assistant", <<>>), Msg("user", <<"q">>)>>),
     Listing(<<Msg("assistant", <<>>), Msg("assistant", <<"old">>)>>)}

\* lines 756-771: the first message in the listing that is an assistant
\* message with text gives its last text value
RECURSIVE ResponseFrom(_, _)
ResponseFrom(msgs, i) ==
    IF i > Len(msgs) THEN NoResponseMsg
    ELSE IF msgs[i].role = "assistant" /\ Len(msgs[i].texts) > 0
    THEN Str(<<msgs[i].texts[Len(msgs[i].texts)]>>)
    ELSE ResponseFrom(msgs, i + 1)

\* lines 732-736: the test that sends a failed run to the rate-limit analysis
IsRateLimitError(e) ==
    /\ e # None
    /\ \/ e.code = "rate_limit_exceeded"
       \/ "rate limit" \in e.words
       \/ "quota" \in e.words

\* lines 739-741: self._analyze_rate_limit_error(...): RoutingAgent defines no
\* such method, the attribute lookup raises AttributeError
analyze_rate_limit_error(e) == [kind |-> "raised", exc |-> "AttributeError"]

\* lines 705-727 and 744: error_info, then the generic message
ErrorProcessingRequest(e) ==
    IF e = None
    THEN Str(<<"Error processing request: ", "Run error: ", "None">>)
    ELSE Str(<<"Error processing request: ", "Run error: ", e.message,
               " (Code: ", e.code, " (Message: ", e.message>>)

\* lines 690-744
FailedReturn(e) ==
    IF IsRateLimitError(e) THEN analyze_rate_limit_error(e)
    ELSE ErrorProcessingRequest(e)

\* line 683: the test made once the while loop is left
TimedOut(it) == it >= max_iterations

\* lines 773-781: the except clause logs and falls off the end of the method
OuterExcept(r) == IF r.kind = "raised" THEN None ELSE r

\* lines 683-771: what is returned once the while loop is left; listing is
\* the answer of messages.list, or a raised exception
AfterLoop(it, r, listing) ==
    OuterExcept(
      IF TimedOut(it) THEN TimeoutMsg
      ELSE IF r.status = "failed" THEN FailedReturn(r.last_error)
      ELSE IF listing.kind = "raised" THEN listing
      ELSE ResponseFrom(listing.msgs, 1))

\* line 643-646: the while condition
LoopContinues(it, r) == r.status \in LiveStatuses /\ it < max_iterations

\* json.dumps of a dict gives a JSON object, of a str a JSON string
JsonObject(keys, about) == [json |-> "object", keys |-> keys, about |-> about]
JsonString(about) == [json |-> "string", keys |-> {}, about |-> about]

\* lines 806-810: a value with model_dump (a Task) is dumped as an object;
\* every other value (an error dict, None) goes through str() first
ResultOutput(ret) ==
    IF ret.kind = "Task" THEN JsonObject({"id", "contextId", "status"}, "Task")
    ELSE JsonString(ret.kind)

\* lines 811-812: except Exception as e: output = json.dumps({"error": str(e)})
ErrorOutput_as_string(exc) == JsonString(exc)

ErrorOutput(exc) == JsonObject({"error"}, exc)

\* lines 814-816
UnknownFunctionOutput == JsonObject({"error"}, "Unknown function")

\* lines 790-820: one tool call; gives the tool output and what send_message
\* did.  json.loads of malformed arguments raises out of the for loop
HandleToolCall(conns, st, uuid, tc, outcome) ==
    IF tc.args = "not json"
    THEN [aborted |-> TRUE, output |-> None, raised |-> FALSE, state |-> st,
          uuid_next |-> uuid, dispatched |-> <<>>]
    ELSE IF tc.fn = "send_message"
    THEN LET Handled(r) ==
                 [aborted |-> FALSE,
                  output |-> IF r.ret.kind = "raised"
                             THEN ErrorOutput(r.ret.exc)
                             ELSE ResultOutput(r.ret),
                  raised |-> r.ret.kind = "raised",
                  state |-> r.state, uuid_next |-> r.uuid_next,
                  dispatched |-> r.dispatched]
         IN  Handled(send_message(conns, st, uuid, tc.args, "who won", outcome))
    ELSE [aborted |-> FALSE, output |-> UnknownFunctionOutput, raised |-> FALSE,
          state |-> st, uuid_next |-> uuid, dispatched |-> <<>>]

\* tool_call.id: the ids of the tool calls of a run are distinct; the
\* position of the call in the list stands for its id
ToolCallId(tcs, i) == i

\* lines 818-820: the entry appended to tool_outputs
ToolOutput(tool_call_id, output) == [tool_call_id |-> tool_call_id, output |-> output]

\* lines 785-834: the for loop over the tool calls from the i-th on; acc
\* carries the context state, the uuid source, the dispatches, the tool
\* outputs so far and, for each, whether send_message raised
RECURSIVE HandleLoop(_, _, _, _, _)
HandleLoop(conns, tcs, outs, i, acc) ==
    IF i > Len(tcs) THEN acc
    ELSE LET After(h) ==
                 IF h.aborted THEN [acc EXCEPT !.aborted = TRUE]
                 ELSE HandleLoop(conns, tcs, outs, i + 1,
                                 [aborted |-> FALSE,
                                  state |-> h.state, uuid_next |-> h.uuid_next,
                                  dispatched |-> acc.dispatched \o h.dispatched,
                                  outputs |-> Append(acc.outputs,
                                      ToolOutput(ToolCallId(tcs, i), h.output)),
                                  raised |-> Append(acc.raised, h.raised)])
         IN  After(HandleToolCall(conns, acc.state, acc.uuid_next, tcs[i], outs[i]))

\* lines 822-834: the outputs are handed to runs.submit_tool_outputs unless
\* the for loop was left by an exception; the except clause of line 830
\* swallows that exception and one raised by the submission itself
Submission(aborted, submit_ok) ==
    IF aborted THEN "not attempted" ELSE IF submit_ok THEN "accepted" ELSE "raised"

\* the whole method: it returns None on every path; state, uuid_next and
\* dispatched are what its send_message calls did, outputs the tool_outputs
\* list as it stood when the for loop was left, raised says for each output
\* whether send_message raised, submitted what became of the submission
handle_required_actions(conns, st, uuid, r, outs, submit_ok) ==
    LET Left(h) ==
            [ret |-> None, state |-> h.state, uuid_next |-> h.uuid_next,
             dispatched |-> h.dispatched, aborted |-> h.aborted,
             outputs |-> h.outputs, raised |-> h.raised,
             submitted |-> Submission(h.aborted, submit_ok)]
    IN  Left(HandleLoop(conns, r.tool_calls, outs, 1,
                        [aborted |-> FALSE, state |-> st, uuid_next |-> uuid,
                         dispatched |-> <<>>, outputs |-> <<>>, raised |-> <<>>]))

\* a direct call of _handle_required_actions with a run that requires action
HandleRequiredActions ==
    /\ Ready
    /\ \E tcs \in ToolCallLists, submit_ok \in BOOLEAN :
         \E outs \in [1..Len(tcs) -> RemoteOutcomes] :
           \E r \in {Run("requires_action", tcs, None)} :
           \E h \in {handle_required_actions(remote_agent_connections, state,
                                            uuid_next, r, outs, submit_ok)} :
               /\ Len(dispatches) + Len(h.dispatched) <= MaxDispatches
               /\ \A i \in 1..Len(outs) :
                    (i > Len(h.dispatched) => outs[i] = "task")
               /\ h.aborted => submit_ok
               /\ state' = h.state
               /\ uuid_next' = h.uuid_next
               /\ dispatches' = dispatches \o h.dispatched
               /\ call' = [op |-> "_handle_required_actions", run |-> r,
                           outcomes |-> outs,
                           outputs |-> h.outputs, raised |-> h.raised,
                           submitted |-> h.submitted, ret |-> h.ret]
    /\ UNCHANGED <<azure_agent, current_thread, threads>>
    /\ UNCHANGED registryVars
    /\ UNCHANGED frameVars
    /\ UNCHANGED executorVars
    /\ UNCHANGED httpVars

\* the record of a finished process_user_message call
PumCall(ret, it, r, listing, fetch_raised) ==
    [op |-> "process_user_message", ret |-> ret, iteration |-> it, run |-> r,
     listing |-> listing, fetch_raised |-> fetch_raised]

NoListing == [kind |-> "not listed"]
ListingRaised == [kind |-> "raised", exc |-> "messages.list"]

\* the listing is fetched only when the loop is left without a timeout and
\* the run did not fail
ListingAnswers(it, r) ==
    IF LoopContinues(it, r) \/ TimedOut(it) \/ r.status = "failed"
    THEN {NoListing}
    ELSE Listings \cup {ListingRaised}

\* lines 574-634: the call up to the creation of the run, then the while
\* loop's first test
ProcessUserMessage ==
    /\ phase = "initialized"
    /\ pc = "idle"
    /\ IF azure_agent = None
       THEN /\ call' = PumCall(NotInitializedMsg, 0, None, NoListing, FALSE)
            /\ pc' = "returned"
            /\ UNCHANGED <<state, uuid_next, current_thread, threads, thread,
                           run, iteration, polls>>
       ELSE \E thread_id \in ThreadIdArgs, get_ok \in BOOLEAN, create_ok \in BOOLEAN :
              LET s0 == initialize_session(state, uuid_next)
                  t  == get_or_create_thread(current_thread, threads, thread_id,
                                             get_ok, create_ok)
              IN  /\ Cardinality(t.threads) <= MaxThreads
                  /\ (thread_id \notin threads => get_ok)
                  /\ (LookupSucceeds(threads, thread_id, get_ok) => create_ok)
                  /\ state' = s0.state
                  /\ uuid_next' = s0.uuid_next
                  /\ current_thread' = t.current_thread
                  /\ threads' = t.threads
                  /\ polls' = 0
                  /\ iteration' = 0
                  /\ IF t.ret.kind = "raised"
                     THEN /\ call' = PumCall(OuterExcept(t.ret), 0, None, NoListing, FALSE)
                          /\ pc' = "returned"
                          /\ UNCHANGED <<thread, run>>
                     ELSE \E created \in {"messages.create", "runs.create", "ok"} :
                            IF created # "ok"
                            THEN /\ call' = PumCall(
                                      OuterExcept([kind |-> "raised", exc |-> created]),
                                      0, None, NoListing, FALSE)
                                 /\ pc' = "returned"
                                 /\ thread' = t.ret.id
                                 /\ UNCHANGED run
                            ELSE \E r \in Runs :
                                   /\ thread' = t.ret.id
                                   /\ run' = r
                                   /\ IF LoopContinues(0, r)
                                      THEN /\ pc' = "polling"
                                           /\ UNCHANGED call
                                      ELSE \E listing \in ListingAnswers(0, r) :
                                             /\ pc' = "returned"
                                             /\ call' = PumCall(AfterLoop(0, r, listing),
                                                                0, r, listing, FALSE)
    /\ invocations' = invocations + 1
    /\ UNCHANGED <<azure_agent, dispatches, handled>>
    /\ UNCHANGED registryVars
    /\ UNCHANGED executorVars
    /\ UNCHANGED httpVars

\* line 657: iteration += 1, whatever runs.get does next
NextIteration_on_success(it, fetched) == IF fetched THEN it + 1 ELSE it

NextIteration(it, fetched) == it + 1

\* line 660 and 666-678: runs.get rebinds run; when it raises, the except
\* clause continues the loop with the run object it already held
RunAfterFetch(r, fetch) == IF fetch.kind = "raised" THEN r ELSE fetch.run

Fetched(r) == [kind |-> "fetched", run |-> r]
FetchRaised == [kind |-> "raised", exc |-> "runs.get"]

\* lines 643-678, one pass of the while loop: the tool calls of a
\* requires_action run, the sleep, the count and the status fetch; and, when
\* the loop is left, lines 680-771
Poll ==
    /\ pc = "polling"
    /\ \E outs \in [1..Len(run.tool_calls) -> RemoteOutcomes], submit_ok \in BOOLEAN :
         \E h \in {IF run.status = "requires_action"
                   THEN handle_required_actions(remote_agent_connections, state,
                                                uuid_next, run, outs, submit_ok)
                   ELSE [state |-> state, uuid_next |-> uuid_next,
                         dispatched |-> <<>>]} :
             /\ Len(dispatches) + Len(h.dispatched) <= MaxDispatches
             /\ \A i \in 1..Len(outs) :
                  (i > Len(h.dispatched) => outs[i] = "task")
             /\ state' = h.state
             /\ uuid_next' = h.uuid_next
             /\ dispatches' = dispatches \o h.dispatched
    /\ polls' = polls + 1
    /\ \E fetch \in {Fetched(r) : r \in Runs} \cup {FetchRaised} :
         LET fetched == fetch.kind = "fetched"
             it == NextIteration(iteration, fetched)
             r  == RunAfterFetch(run, fetch)
         IN  /\ iteration' = it
             /\ run' = r
             /\ handled' = (~fetched /\ run.status = "requires_action")
             /\ IF LoopContinues(it, r)
                THEN /\ pc' = "polling"
                     /\ UNCHANGED call
                ELSE \E listing \in ListingAnswers(it, r) :
                       /\ pc' = "returned"
                       /\ call' = PumCall(AfterLoop(it, r, listing), it, r, listing,
                                          ~fetched)
    /\ UNCHANGED <<azure_agent, current_thread, threads, thread, invocations>>
    /\ UNCHANGED registryVars
    /\ UNCHANGED executorVars
    /\ UNCHANGED httpVars

(***************************************************************************)
(* Text: a sequence of tokens; the token " " is white space                *)
(***************************************************************************)
IsSpace(c) == c = " "

RECURSIVE LStrip(_)
LStrip(t) == IF t # <<>> /\ IsSpace(Head(t)) THEN LStrip(Tail(t)) ELSE t

RECURSIVE RStrip(_)
RStrip(t) ==
    IF t # <<>> /\ IsSpace(t[Len(t)]) THEN RStrip(SubSeq(t, 1, Len(t) - 1)) ELSE t

\* str.strip()
Strip(t) == RStrip(LStrip(t))

(***************************************************************************)
(* OpenAIWebSearchAgent (src/remote_agents/sports_results_agent/agent.py)  *)
(***************************************************************************)
\* events of the downstream model stream (stream_result.stream_events())
TextDelta(delta) ==
    [type |-> "raw_response_event", data |-> "ResponseTextDeltaEvent", delta |-> delta]
OtherRawEvent ==
    [type |-> "raw_response_event", data |-> "ResponseCompletedEvent", delta |-> <<>>]
RunItemEvent ==
    [type |-> "run_item_stream_event", data |-> "none", delta |-> <<>>]

\* delta texts: empty, white space only, text, text followed by white space
Deltas == {<<>>, <<" ">>, <<"a">>, <<"a", " ">>}

StreamEvents == {TextDelta(d) : d \in Deltas} \cup {OtherRawEvent, RunItemEvent}

\* how the model stream ends: it is exhausted, or it raises
StreamEnds == {"normal", "rate limit", "connection"}

\* the dicts stream() yields
Partial(is_task_complete, require_user_input, content) ==
    [is_task_complete |-> is_task_complete,
     require_user_input |-> require_user_input, content |-> content]

\* agent.py:119-237, _parse_rate_limit_error
parse_rate_limit_error(e) ==
    IF e = "rate limit"
    THEN <<"Rate Limit Exceeded", "Technical details: ", e>>
    ELSE <<"Error processing request: ", e>>

\* agent.py:83-102: one partial per text delta that is not empty
RECURSIVE StreamDeltas(_, _)
StreamDeltas(evs, i) ==
    IF i > Len(evs) THEN <<>>
    ELSE (IF /\ evs[i].type = "raw_response_event"
             /\ evs[i].data = "ResponseTextDeltaEvent"
             /\ evs[i].delta # <<>>
          THEN <<Partial(FALSE, FALSE, evs[i].delta)>>
          ELSE <<>>) \o StreamDeltas(evs, i + 1)

\* agent.py:104-109
CompletionPartial == Partial(TRUE, FALSE, <<"Task completed successfully.">>)

\* agent.py:54-117: everything stream() yields for a model stream that gives
\* evs and then ends as end says
stream(ag, evs, end) ==
    IF ag = None
    THEN <<Partial(FALSE, TRUE,
                   <<"Agent not initialized. Please call initialize() first.">>)>>
    ELSE StreamDeltas(evs, 1) \o
         <<IF end = "normal" THEN CompletionPartial
           ELSE Partial(FALSE, TRUE, parse_rate_limit_error(end))>>

(***************************************************************************)
(* OpenAIWebSearchAgentExecutor.execute                                    *)
(* (src/remote_agents/sports_results_agent/agent_executor.py:29-242)       *)
(***************************************************************************)
NoTask == "no task"
NoArtifact == "no artifact"
NoMessage == <<>>

\* the events execute enqueues
TaskEvent(id) == [kind |-> "task", taskId |-> id]
StatusEvent(st, final, message, id) ==
    [kind |-> "status", state |-> st, final |-> final, message |-> message,
     taskId |-> id]
ArtifactEvent(append, lastChunk, artifact_id, text, id) ==
    [kind |-> "artifact", append |-> append, lastChunk |-> lastChunk,
     artifact_id |-> artifact_id, text |-> text, taskId |-> id]

\* an exception: its class name and its message
Exc(cls, msg) == [kind |-> "raised", cls |-> cls, msg |-> msg]

\* the request context: the task the request continues (or none) and the
\* message, None or a message with its text parts
Message(parts) == [kind |-> "Message", parts |-> parts]
Context(current_task, message) == [current_task |-> current_task, message |-> message]
Contexts ==
    {Context(t, m) : t \in {NoTask, "task-0"},
                     m \in {None, Message(<<>>), Message(<<<<"q">>>>)}}

\* context.get_user_input(): the text of the message's parts, "" without one
RECURSIVE JoinParts(_, _)
JoinParts(parts, i) ==
    IF i > Len(parts) THEN <<>> ELSE parts[i] \o JoinParts(parts, i + 1)

get_user_input(ctx) ==
    IF ctx.message = None THEN <<>> ELSE JoinParts(ctx.message.parts, 1)

\* lines 38-41
ResolveQuery(ctx) ==
    LET query == get_user_input(ctx)
    IN  IF query = <<>> /\ ctx.message # None /\ ctx.message.parts # <<>>
        THEN Strip(JoinParts(ctx.message.parts, 1))
        ELSE query

\* new_task(context.message): reads the message, so it raises without one;
\* fresh is the id a new task gets
new_task(message, fresh) ==
    IF message = None THEN Exc("AttributeError", "NoneType")
    ELSE [kind |-> "Task", id |-> fresh]

\* the id new_text_artifact gives the artifact of this execute
ArtifactId == "artifact-1"

\* line 93: text_content or "Additional input is required."
InputRequiredText_fixed(text_content) == <<"Additional input is required.">>

InputRequiredText(text_content) ==
    IF text_content # <<>> THEN text_content ELSE <<"Additional input is required.">>

\* line 106: final_text = text_content or "Task completed."
FinalText(text_content) ==
    IF text_content # <<>> THEN text_content ELSE <<"Task completed.">>

\* lines 107 and 173: result_artifact_id is None decides between creating the
\* artifact (append=False) and appending to it (append=True)
HasArtifact_never(rid) == FALSE

HasArtifact(rid) == rid # NoArtifact

\* lines 114 and 178 take the id new_text_artifact gave the artifact; lines
\* 127 and 190 put result_artifact_id into every later event
ArtifactIdOf_fresh(rid) == IF rid # NoArtifact THEN "artifact-2" ELSE ArtifactId

ArtifactIdOf(rid) == IF rid # NoArtifact THEN rid ELSE ArtifactId

\* lines 205-220: the stream is exhausted and no partial ended the task
StreamEnded_silent(tid) == <<>>

StreamEnded(tid) ==
    <<StatusEvent("failed", TRUE,
                  <<"Stream ended unexpectedly without completion.">>, tid)>>

\* lines 82-220: the loop over the partials from the i-th on; rid is
\* result_artifact_id, evs the events enqueued so far
RECURSIVE ExecuteLoop(_, _, _, _, _)
ExecuteLoop(partials, i, rid, evs, tid) ==
    IF i > Len(partials)
    THEN evs \o StreamEnded(tid)
    ELSE LET OnPartial(p, text_content) ==
                 IF p.require_user_input
                 THEN Append(evs, StatusEvent("input_required", TRUE,
                                              InputRequiredText(text_content), tid))
                 ELSE IF p.is_task_complete
                 THEN evs \o
                      <<ArtifactEvent(HasArtifact(rid), TRUE, ArtifactIdOf(rid),
                                      FinalText(text_content), tid),
                        StatusEvent("completed", TRUE, NoMessage, tid)>>
                 ELSE IF text_content # <<>>
                 THEN ExecuteLoop(partials, i + 1, ArtifactIdOf(rid),
                                  evs \o <<StatusEvent("working", FALSE, text_content, tid),
                                           ArtifactEvent(HasArtifact(rid), FALSE,
                                                         ArtifactIdOf(rid),
                                                         text_content, tid)>>,
                                  tid)
                 ELSE ExecuteLoop(partials, i + 1, rid, evs, tid)
         IN  OnPartial(partials[i], Strip(partials[i].content))

\* lines 31-220, the try block with every emission succeeding, for an agent
\* whose stream yields partials: the events it enqueues and how it ends
ExecuteTry(init_done, init_ok, ctx, partials) ==
    IF ~init_done /\ ~init_ok
    THEN [events |-> <<>>, raised |-> Exc("RuntimeError", "initialize")]
    ELSE IF ResolveQuery(ctx) = <<>>
    THEN LET t == IF ctx.current_task # NoTask
                  THEN [kind |-> "Task", id |-> ctx.current_task]
                  ELSE new_task(ctx.message, "task-1")
         IN  IF t.kind = "raised" THEN [events |-> <<>>, raised |-> t]
             ELSE [events |->
                     (IF ctx.current_task = NoTask THEN <<TaskEvent(t.id)>> ELSE <<>>)
                     \o <<StatusEvent("input_required", TRUE,
                            <<"Please provide your query (no text was detected).">>,
                            t.id)>>,
                   raised |-> None]
    ELSE LET tid == IF ctx.current_task # NoTask THEN ctx.current_task
                    ELSE new_task(ctx.message, "task-1").id
             start == (IF ctx.current_task = NoTask THEN <<TaskEvent(tid)>> ELSE <<>>)
                      \o <<StatusEvent("working", FALSE, NoMessage, tid)>>
         IN  [events |-> ExecuteLoop(partials, 1, NoArtifact, start, tid),
              raised |-> None]

\* the try block on the stream of the OpenAIWebSearchAgent (line 82)
ExecuteBody(init_done, init_ok, ag, ctx, evs, end) ==
    ExecuteTry(init_done, init_ok, ctx, stream(ag, evs, end))

\* an emission that raises ends the try block there: fail_at is the number of
\* the emission that raises, 0 when none does
CutAt(body, fail_at) ==
    IF fail_at \in 1..Len(body.events)
    THEN [events |-> SubSeq(body.events, 1, fail_at - 1),
          raised |-> Exc("ValidationError", "emission")]
    ELSE body

\* line 233
TaskFailedMessage(e) == <<"Task failed: ", e.cls, ": ", e.msg>>

\* lines 222-242, the except clause: it needs a task for the failed status,
\* and makes a new one when the context has none
ExceptClause(ctx, body) ==
    LET t == IF ctx.current_task # NoTask
             THEN [kind |-> "Task", id |-> ctx.current_task]
             ELSE new_task(ctx.message, "task-2")
    IN  IF t.kind = "raised" THEN [events |-> body.events, ret |-> t]
        ELSE [events |-> body.events
                         \o (IF ctx.current_task = NoTask THEN <<TaskEvent(t.id)>> ELSE <<>>)
                         \o <<StatusEvent("failed", TRUE, TaskFailedMessage(body.raised),
                                          t.id)>>,
              ret |-> None]

\* lines 29-242 given what the try block did: the events enqueued, the value
\* returned (None) or the exception that leaves the method, and the
\* exception the try block raised, if any
TryExcept(ctx, body) ==
    LET Caught(h) ==
            [events |-> h.events, ret |-> h.ret, body_raised |-> body.raised]
    IN  IF body.raised = None
        THEN [events |-> body.events, ret |-> None, body_raised |-> None]
        ELSE Caught(ExceptClause(ctx, body))

\* the whole method on the stream of the OpenAIWebSearchAgent
execute(init_done, init_ok, ag, ctx, evs, end, fail_at) ==
    TryExcept(ctx, CutAt(ExecuteBody(init_done, init_ok, ag, ctx, evs, end), fail_at))

\* the whole method on an agent whose stream yields partials
execute_partials(init_done, init_ok, ctx, partials, fail_at) ==
    TryExcept(ctx, CutAt(ExecuteTry(init_done, init_ok, ctx, partials), fail_at))

\* the request handler built in __main__.py hands every request a context
\* and an event queue of its own
NewRequest ==
    /\ call.op \in {"execute", "cancel", "executed"}
    /\ event_queue' = <<>>
    /\ call' = [op |-> "request"]
    /\ UNCHANGED <<initialized, agent>>
    /\ UNCHANGED <<azure_agent, state, current_thread, threads, uuid_next, dispatches>>
    /\ UNCHANGED registryVars
    /\ UNCHANGED frameVars
    /\ UNCHANGED httpVars

\* one execute call on the queue of its request; initialize() (agent.py:37-52,
\* agent_executor.py:32-34) builds the Agent, or cleans up and raises
Execute ==
    /\ call.op \notin {"execute", "cancel"}
    /\ \E ctx \in Contexts, init_ok \in BOOLEAN, end \in StreamEnds :
       \E evs \in SeqsUpTo(StreamEvents, MaxStream) :
         LET ag == IF initialized THEN agent
                   ELSE IF init_ok THEN [kind |-> "Agent"] ELSE None
             reaches_stream == (initialized \/ init_ok) /\ ResolveQuery(ctx) # <<>>
         IN  /\ initialized => init_ok
             /\ ~reaches_stream => (evs = <<>> /\ end = "normal")
             /\ \E whole \in {execute(initialized, init_ok, ag, ctx, evs, end, 0)} :
                \E fail_at \in 0..Len(whole.events) :
                \E r \in {execute(initialized, init_ok, ag, ctx, evs, end, fail_at)} :
                      /\ (whole.body_raised # None => fail_at = 0)
                      /\ event_queue' = r.events
                      /\ call' = [op |-> "execute", context |-> ctx, stream |-> evs,
                                  stream_end |-> end,
                                  partials |-> IF reaches_stream
                                               THEN stream(ag, evs, end) ELSE <<>>,
                                  fail_at |-> fail_at,
                                  body_raised |-> r.body_raised, ret |-> r.ret]
             /\ initialized' = (initialized \/ init_ok)
             /\ agent' = ag
    /\ UNCHANGED <<azure_agent, state, current_thread, threads, uuid_next, dispatches>>
    /\ UNCHANGED registryVars
    /\ UNCHANGED frameVars
    /\ UNCHANGED httpVars

\* the partial dicts a stream may yield: the contract self.agent.stream
\* implements (line 82).  An incremental chunk carries any text; a completion
\* carries a text or none; a request for input carries its message
StandInPartials ==
    {Partial(FALSE, FALSE, c) : c \in {<<>>, <<" ">>, <<"a">>}}
    \cup {Partial(TRUE, FALSE, c) : c \in {<<>>, <<"Task completed successfully.">>}}
    \cup {Partial(FALSE, TRUE, parse_rate_limit_error("connection"))}

\* one execute call of an executor whose agent attribute holds a stand-in
\* with the interface of OpenAIWebSearchAgent: initialize() succeeds or
\* raises, stream() yields partials and ends
ExecuteStandIn ==
    /\ call.op \notin {"execute", "cancel"}
    /\ \E ctx \in Contexts, init_ok \in BOOLEAN :
       \E partials \in SeqsUpTo(StandInPartials, MaxStream) :
         LET reaches_stream == (initialized \/ init_ok) /\ ResolveQuery(ctx) # <<>>
         IN  /\ initialized => init_ok
             /\ ~reaches_stream => partials = <<>>
             /\ \E whole \in {execute_partials(initialized, init_ok, ctx, partials, 0)} :
                \E fail_at \in 0..Len(whole.events) :
                \E r \in {execute_partials(initialized, init_ok, ctx, partials, fail_at)} :
                      /\ (whole.body_raised # None => fail_at = 0)
                      /\ event_queue' = r.events
                      /\ call' = [op |-> "execute", context |-> ctx, stream |-> <<>>,
                                  stream_end |-> "stand-in", partials |-> partials,
                                  fail_at |-> fail_at,
                                  body_raised |-> r.body_raised, ret |-> r.ret]
             /\ initialized' = (initialized \/ init_ok)
             /\ agent' = IF initialized \/ init_ok THEN [kind |-> "Agent"] ELSE None
    /\ UNCHANGED <<azure_agent, state, current_thread, threads, uuid_next, dispatches>>
    /\ UNCHANGED registryVars
    /\ UNCHANGED frameVars
    /\ UNCHANGED httpVars

\* agent_executor.py:244-254, cancel: the events it enqueues
CancelEvents_always(ctx) ==
    <<StatusEvent("canceled", TRUE, NoMessage, ctx.current_task)>>

CancelEvents(ctx) ==
    IF ctx.current_task # NoTask
    THEN <<StatusEvent("canceled", TRUE, NoMessage, ctx.current_task)>>
    ELSE <<>>

\* one cancel call on the queue of its request
Cancel ==
    /\ call.op \notin {"execute", "cancel"}
    /\ \E ctx \in Contexts :
         /\ event_queue' = CancelEvents(ctx)
         /\ call' = [op |-> "cancel", context |-> ctx, ret |-> None]
    /\ UNCHANGED <<initialized, agent>>
    /\ UNCHANGED <<azure_agent, state, current_thread, threads, uuid_next, dispatches>>
    /\ UNCHANGED registryVars
    /\ UNCHANGED frameVars
    /\ UNCHANGED httpVars

(***************************************************************************)
(* execute and cancel of one task as two coroutines on one event loop      *)
(* (agent_executor.py:29-254).  execute awaits at initialize() (line 33),  *)
(* at every enqueue_event and at every step of the stream (line 82); at an *)
(* await the loop may run a cancel for the task.  Neither method reads     *)
(* anything the other writes: they share the event queue only.             *)
(***************************************************************************)
\* the task of a call exists once its context names it or its Task event
\* is in the queue
TaskExists(ctx, queue) ==
    \/ ctx.current_task # NoTask
    \/ \E i \in 1..Len(queue) : queue[i].kind = "task"

\* the context of the cancel request for the task of an execute
CancelContext(ctx, queue) ==
    Context(IF ctx.current_task # NoTask THEN ctx.current_task
            ELSE IF \E i \in 1..Len(queue) : queue[i].kind = "task"
                 THEN (CHOOSE e \in Range(queue) : e.kind = "task").taskId
                 ELSE NoTask,
            None)

\* execute is called: what it will enqueue is fixed by its inputs
ExecuteBegin ==
    /\ call.op \notin {"execute", "cancel", "executing", "executed"}
    /\ \E ctx \in Contexts, init_ok \in BOOLEAN, end \in StreamEnds :
       \E evs \in SeqsUpTo(StreamEvents, MaxStream) :
         LET ag == IF initialized THEN agent
                   ELSE IF init_ok THEN [kind |-> "Agent"] ELSE None
             reaches_stream == (initialized \/ init_ok) /\ ResolveQuery(ctx) # <<>>
         IN  /\ initialized => init_ok
             /\ ~reaches_stream => (evs = <<>> /\ end = "normal")
             /\ \E r \in {execute(initialized, init_ok, ag, ctx, evs, end, 0)} :
                   call' = [op |-> IF r.events = <<>> THEN "executed" ELSE "executing",
                            context |-> ctx, pending |-> r.events,
                            canceled |-> FALSE, ret |-> r.ret]
             /\ initialized' = (initialized \/ init_ok)
             /\ agent' = ag
    /\ event_queue' = <<>>
    /\ UNCHANGED <<azure_agent, state, current_thread, threads, uuid_next, dispatches>>
    /\ UNCHANGED registryVars
    /\ UNCHANGED frameVars
    /\ UNCHANGED httpVars

\* execute runs to its next enqueue_event
ExecuteEnqueue ==
    /\ call.op = "executing"
    /\ event_queue' = Append(event_queue, Head(call.pending))
    /\ call' = [call EXCEPT !.pending = Tail(@),
                            !.op = IF Tail(call.pending) = <<>>
                                   THEN "executed" ELSE "executing"]
    /\ UNCHANGED <<initialized, agent>>
    /\ UNCHANGED <<azure_agent, state, current_thread, threads, uuid_next, dispatches>>
    /\ UNCHANGED registryVars
    /\ UNCHANGED frameVars
    /\ UNCHANGED httpVars

\* the loop runs one cancel for the task while execute is suspended
CancelDuringExecute ==
    /\ call.op = "executing"
    /\ ~call.canceled
    /\ TaskExists(call.context, event_queue)
    /\ event_queue' = event_queue \o CancelEvents(CancelContext(call.context, event_queue))
    /\ call' = [call EXCEPT !.canceled = TRUE]
    /\ UNCHANGED <<initialized, agent>>
    /\ UNCHANGED <<azure_agent, state, current_thread, threads, uuid_next, dispatches>>
    /\ UNCHANGED registryVars
    /\ UNCHANGED frameVars
    /\ UNCHANGED httpVars

(***************************************************************************)
(* The HTTP endpoints (src/routing_agent/__init__.py) on the service of    *)
(* src/routing_agent/dependencies.py                                       *)
(***************************************************************************)
\* MessageRequest.message: empty, white space only, text
Messages == {<<>>, <<" ">>, <<"hello">>, <<" ", "hello">>}

\* lines 227 and 255: not request.message.strip()
IsBlank_empty_only(message) == message = <<>>

IsBlank(message) == Strip(message) = <<>>

\* an event of the stream: data: {"type": ..., "content": ...}
SSE(type, content) == [type |-> type, content |-> content]

\* how generate_response_stream is entered: through POST /chat/stream, which
\* passes the service, or called with routing_agent_service left at its
\* default None
Entries ==
    {[endpoint |-> "/chat", service |-> "service"],
     [endpoint |-> "/chat/stream", service |-> "service"],
     [endpoint |-> "generate_response_stream", service |-> "None"]}

\* a request reaches the application the lifespan has started (lines 66-72:
\* the routing agent exists and create_agent has run)
Receive ==
    /\ phase = "initialized"
    /\ azure_agent # None
    /\ request = NoRequest
    /\ \E e \in Entries, message \in Messages :
         request' = [endpoint |-> e.endpoint, service |-> e.service,
                     message |-> message,
                     stage |-> IF e.endpoint = "generate_response_stream"
                               THEN "streaming" ELSE "received"]
    /\ UNCHANGED <<response, events>>
    /\ UNCHANGED <<azure_agent, state, current_thread, threads, uuid_next, call,
                   dispatches>>
    /\ UNCHANGED registryVars
    /\ UNCHANGED frameVars
    /\ UNCHANGED executorVars
    /\ UNCHANGED serviceVars

\* lines 249-259, chat up to its await: a blank message is answered 400,
\* any other starts process_user_message
Chat ==
    /\ request.endpoint = "/chat"
    /\ request.stage = "received"
    /\ response = NoResponse
    /\ IF IsBlank(request.message)
       THEN /\ response' = [status_code |-> "400", keys |-> {"detail"}]
            /\ UNCHANGED <<request, events>>
            /\ UNCHANGED <<azure_agent, state, current_thread, threads, uuid_next,
                           call, dispatches>>
            /\ UNCHANGED registryVars
            /\ UNCHANGED frameVars
            /\ UNCHANGED executorVars
            /\ UNCHANGED serviceVars
       ELSE ProcessUserMessage

\* lines 259-268, chat once process_user_message is over
ChatRespond ==
    /\ request.endpoint = "/chat"
    /\ request.stage = "received"
    /\ response = NoResponse
    /\ pc = "returned"
    /\ response' = IF call.ret.kind = "raised"
                   THEN [status_code |-> "500", keys |-> {"detail"}]
                   ELSE [status_code |-> "200",
                         keys |-> {"response", "session_id", "thread_id"}]
    /\ UNCHANGED <<request, events>>
    /\ UNCHANGED <<azure_agent, state, current_thread, threads, uuid_next, call,
                   dispatches>>
    /\ UNCHANGED registryVars
    /\ UNCHANGED frameVars
    /\ UNCHANGED executorVars
    /\ UNCHANGED serviceVars

\* lines 221-246, chat_stream: a blank message is answered 400, any other
\* with a StreamingResponse over generate_response_stream
ChatStream ==
    /\ request.endpoint = "/chat/stream"
    /\ request.stage = "received"
    /\ IF IsBlank(request.message)
       THEN /\ response' = [status_code |-> "400", keys |-> {"detail"}]
            /\ request' = [request EXCEPT !.stage = "rejected"]
       ELSE /\ response' = [status_code |-> "200", keys |-> {}]
            /\ request' = [request EXCEPT !.stage = "streaming"]
    /\ UNCHANGED events
    /\ UNCHANGED <<azure_agent, state, current_thread, threads, uuid_next, call,
                   dispatches>>
    /\ UNCHANGED registryVars
    /\ UNCHANGED frameVars
    /\ UNCHANGED executorVars
    /\ UNCHANGED serviceVars

\* lines 151-177, generate_response_stream up to the task it creates:
\* get_routing_agent of the service gives the instance it holds
StreamStart ==
    /\ request.stage = "streaming"
    /\ IF request.service = "None"
       THEN /\ events' = <<SSE("error", Str(<<"Routing agent service not available.">>))>>
            /\ request' = [request EXCEPT !.stage = "closed"]
       ELSE /\ events' = <<SSE("status", Str(<<"Agent working...">>))>>
            /\ request' = [request EXCEPT !.stage = "processing"]
    /\ UNCHANGED response
    /\ UNCHANGED <<azure_agent, state, current_thread, threads, uuid_next, call,
                   dispatches>>
    /\ UNCHANGED registryVars
    /\ UNCHANGED frameVars
    /\ UNCHANGED executorVars
    /\ UNCHANGED serviceVars

\* lines 169-177: the task runs process_user_message
StreamProcess ==
    /\ request.stage = "processing"
    /\ ProcessUserMessage

\* lines 201-205: the event for the value the task gave.  For a falsy value
\* the test goes on to response.get, which a value that is no dict lacks:
\* the AttributeError is caught at line 207
FinalEvent(ret) ==
    IF ret.kind = "str" /\ ret.text # <<>>
    THEN SSE("response", ret)
    ELSE IF ret.kind = "dict"
    THEN IF "error" \in ret.keys
         THEN SSE("error", Str(<<"error">>))
         ELSE SSE("response", ret)
    ELSE SSE("error", Str(<<"An error occurred: ", "AttributeError">>))

\* lines 169-174: process_message gives the value process_user_message
\* returned, or a dict with the key "error" for an exception
ProcessMessage(ret) ==
    IF ret.kind = "raised" THEN [kind |-> "dict", keys |-> {"error"}] ELSE ret

\* lines 198-218, generate_response_stream once the task is done: the final
\* event, the removal of the status queue and the end marker
StreamFinish ==
    /\ request.stage = "processing"
    /\ pc = "returned"
    /\ events' = events \o <<FinalEvent(ProcessMessage(call.ret)), SSE("end", None)>>
    /\ request' = [request EXCEPT !.stage = "closed"]
    /\ UNCHANGED response
    /\ UNCHANGED <<azure_agent, state, current_thread, threads, uuid_next, call,
                   dispatches>>
    /\ UNCHANGED registryVars
    /\ UNCHANGED frameVars
    /\ UNCHANGED executorVars
    /\ UNCHANGED serviceVars

(***************************************************************************)
(* Requests in flight at the same time on one service                      *)
(* (dependencies.py:20-65, __init__.py:91-96, 144-268).  The handlers are  *)
(* coroutines of one event loop: a handler runs until it awaits.           *)
(* process_user_message awaits only inside send_message, at                *)
(* client.send_message (routing_agent.py:495); its polling sleeps with     *)
(* time.sleep, which does not yield.  The generator of /chat/stream yields *)
(* at each event and at asyncio.sleep(0.1).  The requests carry a message  *)
(* that is not blank.                                                      *)
(***************************************************************************)
\* the lifespan has built the routing agent and its Azure agent
ServiceReady == phase = "initialized" /\ azure_agent # None

\* the request that arrives next: the ids are given in the order of arrival
Arrives(request_id) ==
    /\ handlers[request_id].pc = "idle"
    /\ request_id = "r2" => handlers["r1"].pc # "idle"

\* dependencies.py:27-37
create_status_queue(queues, request_id) == StateSet(queues, request_id, <<>>)

remove_status_queue(queues, request_id) ==
    [x \in DOMAIN queues \ {request_id} |-> queues[x]]

\* lines 41-45: the dict put on the queues.  cause names the request whose
\* coroutine made the callback; the dict has no such key (history)
StatusData(callback, cause) ==
    [type |-> "agent_status", status_type |-> callback.status_type,
     agent_name |-> callback.agent_name, cause |-> cause]

\* lines 47-53: put_nowait on every queue of the manager; the queues are
\* unbounded, so queue.Full is never raised
broadcast_status_to_cause(queues, status_data) ==
    [x \in DOMAIN queues |-> IF x = status_data.cause
                             THEN Append(queues[x], status_data) ELSE queues[x]]

broadcast_status(queues, status_data) ==
    [x \in DOMAIN queues |-> Append(queues[x], status_data)]

\* the callbacks of one stretch of send_message, in order
RECURSIVE status_callback(_, _, _, _)
status_callback(queues, callbacks, cause, i) ==
    IF i > Len(callbacks) THEN queues
    ELSE status_callback(broadcast_status(queues, StatusData(callbacks[i], cause)),
                         callbacks, cause, i + 1)

\* routing_agent.py:822-827: the thread id given to submit_tool_outputs
\* for a run created on the local thread.  With current_thread None the
\* attribute access raises, line 829 catches it and nothing is submitted
SubmitThreadId_of_run(cur, thread_of_run) == thread_of_run

SubmitThreadId(cur, thread_of_run) == cur

SubmitToolOutputs(cur, thread_of_run) ==
    [thread_id |-> SubmitThreadId(cur, thread_of_run), run_thread |-> thread_of_run]

\* what is appended to dispatches for one remote call: the record of
\* send_message, the request that made it, the callbacks send_message makes
\* once the remote has answered, and the earlier dispatches that had
\* returned by then (history)
Returned(ds, hs) == {i \in 1..Len(ds) : \A x \in DOMAIN hs : hs[x].inflight # i}

DispatchRecord(request_id, d, callbacks, after) ==
    [request |-> request_id, agent |-> d.agent, taskId |-> d.taskId,
     contextId |-> d.contextId, ok |-> d.ok,
     callbacks |-> SubSeq(callbacks, 2, Len(callbacks)), after |-> after]

\* process_user_message returned ret.  /chat answers at once, without
\* another await, with get_current_thread_id() (__init__.py:259-264);
\* the task of /chat/stream is done
Return(h, ret, cur) ==
    IF h.endpoint = "/chat"
    THEN [h EXCEPT !.pc = "closed", !.ret = ret, !.reported = cur]
    ELSE [h EXCEPT !.pc = "returned", !.ret = ret]

\* routing_agent.py:627-652 and 783-834: from a poll of the run to the next
\* await or to the return.  The run has ended, or it requires a
\* send_message call to a registered agent.  (A call that names no
\* registered agent returns its dict without awaiting: it is one more poll
\* of the same stretch.)
Proceed(request_id, h, queues, st, uuid, cur) ==
    \E status \in {"completed", "requires_action"},
       agent_name \in Range(DictKeys(remote_agent_connections)),
       outcome \in RemoteOutcomes :
      IF status = "completed"
      THEN /\ handlers' = [handlers EXCEPT
                              ![request_id] = Return(h, Str(<<"answer">>), cur)]
           /\ status_queues' = queues
           /\ state' = st
           /\ uuid_next' = uuid
           /\ UNCHANGED dispatches
      ELSE \E s \in {send_message(remote_agent_connections, st, uuid, agent_name,
                                  "who won", outcome)} :
           /\ Len(dispatches) < MaxDispatches
           /\ handlers' = [handlers EXCEPT ![request_id] =
                              [h EXCEPT !.pc = "awaiting",
                                        !.inflight = Len(dispatches) + 1]]
           /\ status_queues' =
                 status_callback(queues, SubSeq(s.callbacks, 1, 1), request_id, 1)
           /\ state' = s.state
           /\ uuid_next' = s.uuid_next
           /\ dispatches' =
                 Append(dispatches,
                        DispatchRecord(request_id, s.dispatched[1], s.callbacks,
                                       Returned(dispatches, handlers)))

\* routing_agent.py:591-626: process_user_message from its call to the first
\* poll.  thread_id is None or a thread of the runtime; an exception of
\* threads.create() is caught at line 775 and None is returned
Begin(request_id, h) ==
    \E thread_id \in {NoThread} \cup threads, create_ok \in BOOLEAN :
    \E i \in {initialize_session(state, uuid_next)} :
    \E t \in {get_or_create_thread(current_thread, threads, thread_id, TRUE,
                                   create_ok)} :
       /\ Cardinality(t.threads) <= MaxThreads
       /\ (thread_id # NoThread => create_ok)
       /\ current_thread' = t.current_thread
       /\ threads' = t.threads
       /\ IF t.ret.kind = "raised"
          THEN /\ handlers' = [handlers EXCEPT
                                  ![request_id] = Return(h, None, t.current_thread)]
               /\ status_queues' = status_queues
               /\ state' = i.state
               /\ uuid_next' = i.uuid_next
               /\ UNCHANGED dispatches
          ELSE Proceed(request_id, [h EXCEPT !.thread = t.ret.id], status_queues,
                       i.state, i.uuid_next, t.current_thread)

\* __init__.py:249-268, POST /chat up to the await of its dispatch or to
\* its response
ChatCall ==
    /\ ServiceReady
    /\ \E request_id \in RequestIds :
         /\ Arrives(request_id)
         /\ Begin(request_id, Handler("/chat", "idle"))
    /\ UNCHANGED <<azure_agent, call>>
    /\ UNCHANGED registryVars
    /\ UNCHANGED frameVars
    /\ UNCHANGED executorVars
    /\ UNCHANGED <<request, response, events>>

\* __init__.py:160-177, generate_response_stream up to its loop: the queue of
\* the request, the first status event, the task
StreamOpen ==
    /\ ServiceReady
    /\ \E request_id \in RequestIds :
         /\ Arrives(request_id)
         /\ status_queues' = create_status_queue(status_queues, request_id)
         /\ handlers' = [handlers EXCEPT ![request_id] =
                            [Handler("/chat/stream", "created") EXCEPT
                                !.sse = <<SSE("status", Str(<<"Agent working...">>))>>]]
    /\ UNCHANGED <<azure_agent, state, current_thread, threads, uuid_next, call,
                   dispatches>>
    /\ UNCHANGED registryVars
    /\ UNCHANGED frameVars
    /\ UNCHANGED executorVars
    /\ UNCHANGED <<request, response, events>>

\* __init__.py:169-174: the loop runs the task for the first time
TaskRun ==
    /\ \E request_id \in RequestIds :
         /\ handlers[request_id].pc = "created"
         /\ Begin(request_id, handlers[request_id])
    /\ UNCHANGED <<azure_agent, call>>
    /\ UNCHANGED registryVars
    /\ UNCHANGED frameVars
    /\ UNCHANGED executorVars
    /\ UNCHANGED <<request, response, events>>

\* routing_agent.py:495-567 and 807-834: the remote has answered.
\* send_message makes its second callback for a Task, the tool output is
\* submitted, and process_user_message goes on polling
Resume ==
    /\ \E request_id \in RequestIds :
       \E h \in {handlers[request_id]} :
         /\ h.pc = "awaiting"
         /\ Proceed(request_id,
                    [h EXCEPT !.inflight = 0,
                              !.submitted = Append(@, SubmitToolOutputs(current_thread,
                                                                        h.thread))],
                    status_callback(status_queues, dispatches[h.inflight].callbacks,
                                    request_id, 1),
                    state, uuid_next, current_thread)
    /\ UNCHANGED <<azure_agent, current_thread, threads, call>>
    /\ UNCHANGED registryVars
    /\ UNCHANGED frameVars
    /\ UNCHANGED executorVars
    /\ UNCHANGED <<request, response, events>>

\* __init__.py:186-191: the status event for a dict taken from the queue
StatusSSE(status_data) ==
    IF status_data.status_type = "agent_start"
    THEN <<SSE("status", Str(<<"Delegating to ", status_data.agent_name>>))>>
    ELSE IF status_data.status_type = "agent_complete"
    THEN <<SSE("status", Str(<<status_data.agent_name, " agent completed processing">>))>>
    ELSE <<>>

\* __init__.py:181-195: one pass of the loop that finds a status in the
\* queue; the test of line 181 lets it run only while the task is not done.
\* A pass that finds the queue empty sleeps and changes nothing
StreamPoll ==
    /\ \E request_id \in RequestIds :
       \E h \in {handlers[request_id]} :
         /\ h.endpoint = "/chat/stream"
         /\ h.pc \in {"created", "awaiting"}
         /\ status_queues[request_id] # <<>>
         /\ status_queues' = [status_queues EXCEPT ![request_id] = Tail(@)]
         /\ handlers' = [handlers EXCEPT ![request_id] =
                            [h EXCEPT !.sse = @ \o StatusSSE(Head(status_queues[request_id]))]]
    /\ UNCHANGED <<azure_agent, state, current_thread, threads, uuid_next, call,
                   dispatches>>
    /\ UNCHANGED registryVars
    /\ UNCHANGED frameVars
    /\ UNCHANGED executorVars
    /\ UNCHANGED <<request, response, events>>

\* __init__.py:181 and 198-218: the task is done; the loop ends, the final
\* event is yielded, the queue is removed with what it holds, and the end
\* marker is yielded
StreamClose ==
    /\ \E request_id \in RequestIds :
       \E h \in {handlers[request_id]} :
         /\ h.pc = "returned"
         /\ handlers' = [handlers EXCEPT ![request_id] =
                            [h EXCEPT !.pc = "closed",
                                      !.sse = @ \o <<FinalEvent(ProcessMessage(h.ret)),
                                                     SSE("end", None)>>,
                                      !.undelivered = status_queues[request_id]]]
         /\ status_queues' = remove_status_queue(status_queues, request_id)
    /\ UNCHANGED <<azure_agent, state, current_thread, threads, uuid_next, call,
                   dispatches>>
    /\ UNCHANGED registryVars
    /\ UNCHANGED frameVars
    /\ UNCHANGED executorVars
    /\ UNCHANGED <<request, response, events>>

\* __init__.py:91-96, POST /reset, served while a request is suspended.
\* Served at another time it changes nothing a request reads: every call of
\* process_user_message sets current_thread before it reads it
Reset ==
    /\ ServiceReady
    /\ \E request_id \in RequestIds : handlers[request_id].pc = "awaiting"
    /\ current_thread # NoThread
    /\ current_thread' = NoThread
    /\ UNCHANGED <<azure_agent, state, threads, uuid_next, call, dispatches>>
    /\ UNCHANGED registryVars
    /\ UNCHANGED frameVars
    /\ UNCHANGED executorVars
    /\ UNCHANGED httpVars

(***************************************************************************)
(* RemoteAgentConnections.send_message                                     *)
(* (src/routing_agent/remote_agent_connection.py:59-134)                   *)
(***************************************************************************)
\* the attempts in the order the code makes them: the A2A client on the
\* endpoint of the constructor (line 64), a new A2A client on fallback_url,
\* the root (lines 74-77), then the POSTs _direct_http_fallback builds
\* (lines 98-101)
Attempts ==
    <<[via |-> "agent_client", url |-> "/rpc/v1/message:send"],
      [via |-> "fallback_client", url |-> "/"],
      [via |-> "httpx post", url |-> "/rpc/v1/message:send"],
      [via |-> "httpx post", url |-> "/"]>>

\* what an attempt meets: a response of one of three kinds, or a failure
EndpointAnswers == {"task", "non_task", "non_success", "fails"}

\* the exception the i-th attempt raises when it fails
AttemptError(i) == [kind |-> "raised", exc |-> "attempt failed", attempt |-> i]

SendMessageResponse(answer, i) == [kind |-> "response", root |-> answer, attempt |-> i]

\* line 134
AllDirectFailed ==
    [kind |-> "raised", exc |-> "All direct HTTP endpoints failed", attempt |-> 0]

\* lines 93-134: the POSTs from the i-th attempt on; a failure is printed and
\* the loop continues (130-132)
RECURSIVE direct_http_fallback(_, _)
direct_http_fallback(answers, i) ==
    IF i > Len(Attempts) THEN [ret |-> AllDirectFailed, contacted |-> <<>>]
    ELSE IF answers[i] # "fails"
    THEN [ret |-> SendMessageResponse(answers[i], i), contacted |-> <<i>>]
    ELSE LET Later(r) == [ret |-> r.ret, contacted |-> <<i>> \o r.contacted]
         IN  Later(direct_http_fallback(answers, i + 1))

\* lines 85-91: what is raised once every fallback has failed
Reraised_last(primary_error, fallback_error, http_error) == http_error

Reraised(primary_error, fallback_error, http_error) == primary_error

\* lines 59-91: the response returned or the exception raised, and the
\* attempts made, in order
connection_send_message(answers) ==
    IF answers[1] # "fails"
    THEN [ret |-> SendMessageResponse(answers[1], 1), contacted |-> <<1>>]
    ELSE IF answers[2] # "fails"
    THEN [ret |-> SendMessageResponse(answers[2], 2), contacted |-> <<1, 2>>]
    ELSE LET Direct(d) ==
                 [ret |-> IF d.ret.kind = "raised"
                          THEN Reraised(AttemptError(1), AttemptError(2), d.ret)
                          ELSE d.ret,
                  contacted |-> <<1, 2>> \o d.contacted]
         IN  Direct(direct_http_fallback(answers, 3))

\* one send_message call on a connection whose endpoints answer as answers
\* says
ConnectionSendMessage ==
    /\ \E answers \in [1..Len(Attempts) -> EndpointAnswers] :
       \E r \in {connection_send_message(answers)} :
         call' = [op |-> "connection.send_message", answers |-> answers,
                  contacted |-> r.contacted, ret |-> r.ret]
    /\ UNCHANGED <<azure_agent, state, current_thread, threads, uuid_next, dispatches>>
    /\ UNCHANGED registryVars
    /\ UNCHANGED frameVars
    /\ UNCHANGED executorVars
    /\ UNCHANGED httpVars

\* registry, session and dispatch: the operations that do not involve a run
Next ==
    \/ AsyncInitComponents
    \/ InitializeSession
    \/ SendMessage
    \/ HandleRequiredActions

Spec == Init /\ [][Next]_vars

\* thread resolution
NextThread ==
    \/ AsyncInitComponents
    \/ GetOrCreateThread

SpecThread == Init /\ [][NextThread]_vars

\* one user turn on the instance create() and create_agent() set up; the
\* registry is built from at most one address, and send_message is reached
\* through the tool calls of the run
InitTurn == Init /\ addresses \in {<<>>, <<Address(1)>>}

NextTurn ==
    \/ AsyncInitComponents
    \/ CreateAgent
    \/ InitializeSession
    \/ ProcessUserMessage
    \/ Poll

SpecTurn == InitTurn /\ [][NextTurn]_vars

\* the protocol adapter of the sports results agent: one executor object
\* serving execute calls; it has no registry of remote agents
NextExecutor ==
    \/ NewRequest
    \/ Execute
    \/ Cancel

InitExecutor == Init /\ addresses = <<>>

SpecExecutor == InitExecutor /\ [][NextExecutor]_vars

\* the HTTP application: the service builds the routing agent from one
\* address (dependencies.py:71-75) and serves one request
InitHttp == Init /\ addresses = <<Address(1)>>

NextHttp ==
    \/ AsyncInitComponents
    \/ CreateAgent
    \/ Receive
    \/ Chat
    \/ ChatRespond
    \/ ChatStream
    \/ StreamStart
    \/ StreamProcess
    \/ StreamFinish
    \/ Poll

SpecHttp == InitHttp /\ [][NextHttp]_vars
\* the protocol adapter on any stream of partial events
NextAdapter ==
    \/ NewRequest
    \/ ExecuteStandIn

SpecAdapter == InitExecutor /\ [][NextAdapter]_vars

\* execute with a cancel of its task running between two of its awaits
NextCancel ==
    \/ NewRequest
    \/ ExecuteBegin
    \/ ExecuteEnqueue
    \/ CancelDuringExecute

SpecCancel == InitExecutor /\ [][NextCancel]_vars

\* two requests in flight on the service.  The lifespan has run
\* (__init__.py:66-72, dependencies.py:67-81): create() has resolved its
\* addresses, the one of line 73 and the one of line 74, to the two agents
\* and create_agent() has built the Azure agent
InitService ==
    /\ addresses = <<Address(1), Address(2)>>
    /\ phase = "initialized"
    /\ resolution = <<"SportsResultsAgent", "SportsNewsAgent">>
    /\ remote_agent_connections =
          InitLoop([conns |-> <<>>, cards |-> <<>>], addresses, resolution, 1).conns
    /\ cards = InitLoop([conns |-> <<>>, cards |-> <<>>], addresses, resolution, 1).cards
    /\ azure_agent = [kind |-> "Agent",
                      tools |-> AgentTools(remote_agent_connections),
                      instructions |-> RoutingInstructions(cards)]
    /\ state = EmptyState
    /\ current_thread = NoThread
    /\ threads = {}
    /\ uuid_next = 1
    /\ pc = "idle"
    /\ thread = NoThread
    /\ run = None
    /\ iteration = 0
    /\ call = NoCall
    /\ dispatches = <<>>
    /\ polls = 0
    /\ handled = FALSE
    /\ invocations = 0
    /\ initialized = FALSE
    /\ agent = None
    /\ event_queue = <<>>
    /\ request = NoRequest
    /\ response = NoResponse
    /\ events = <<>>
    /\ status_queues = EmptyState
    /\ handlers = [request_id \in RequestIds |-> Handler("none", "idle")]

NextService ==
    \/ ChatCall
    \/ StreamOpen
    \/ TaskRun
    \/ Resume
    \/ StreamPoll
    \/ StreamClose
    \/ Reset

SpecService == InitService /\ [][NextService]_vars

\* one connection to a remote agent, on its own
InitConnection == Init /\ addresses = <<>>

NextConnection ==
    \/ ConnectionSendMessage

SpecConnection == InitConnection /\ [][NextConnection]_vars
(***************************************************************************)
(* Properties                                                              *)
(***************************************************************************)
\* C1: send_message called while the registry is empty returns a dict with
\* the key "error", does not raise and makes no remote dispatch, whatever
\* agent_name and task are.
C1_EmptyRegistryError ==
    (call.op = "send_message" /\ Len(call.registry) = 0) =>
        /\ call.ret.kind = "dict"
        /\ "error" \in call.ret.keys
        /\ call.dispatched = 0

\* an address was configured, its resolution failed, and send_message was called
C1_Witness ==
    /\ call.op = "send_message"
    /\ Len(call.registry) = 0
    /\ Len(addresses) > 0
    /\ call.agent_name = "SportsResultsAgent"

\* C2: send_message with a non-empty registry and an agent_name that is not
\* registered returns a dict with the key "error" whose available_agents
\* lists exactly the registered names, each once, and makes no remote dispatch.
C2_UnknownAgentError ==
    (/\ call.op = "send_message"
     /\ Len(call.registry) > 0
     /\ call.agent_name \notin Range(call.registry)) =>
        /\ call.ret.kind = "dict"
        /\ "error" \in call.ret.keys
        /\ "available_agents" \in call.ret.keys
        /\ Range(call.ret.available_agents) = Range(DictKeys(remote_agent_connections))
        /\ Len(call.ret.available_agents) = Cardinality(Range(DictKeys(remote_agent_connections)))
        /\ call.dispatched = 0

\* two agents are registered and a third name is asked for
C2_Witness ==
    /\ call.op = "send_message"
    /\ Len(call.registry) = 2
    /\ call.agent_name = "WeatherAgent"

\* the names whose resolution succeeded
ResolvedNames == {resolution[i] : i \in {j \in 1..Len(resolution) : resolution[j] \in Names}}

\* C3: after initialization the registry holds exactly the agents whose
\* resolution succeeded, each bound to an address that resolved to it; a
\* failed address neither aborts the loop nor removes other agents, and the
\* registry may be empty.
C3_PartialFailureIsolation ==
    phase = "initialized" =>
        /\ Range(DictKeys(remote_agent_connections)) = ResolvedNames
        /\ Range(DictKeys(cards)) = ResolvedNames
        /\ \A n \in ResolvedNames :
             \E i \in 1..Len(addresses) :
                /\ resolution[i] = n
                /\ DictGet(remote_agent_connections, n) = addresses[i]

\* a failure follows a success, and the agent resolved first is registered
C3_Witness ==
    /\ phase = "initialized"
    /\ Len(resolution) = 2
    /\ resolution[1] \in Names
    /\ resolution[2] = "ConnectError"
    /\ DictHas(remote_agent_connections, resolution[1])
\* a process_user_message call has returned
PumReturned == call.op = "process_user_message"

\* the run the returned call last saw had the given status
PumEndedIn(status) ==
    PumReturned /\ call.run # None /\ call.run.status = status

\* C4: process_user_message never returns None: on every path it returns a
\* non-empty string.
C4_NeverReturnsNone ==
    PumReturned => (call.ret.kind = "str" /\ Len(call.ret.text) > 0)

\* C5: a run still in a non-terminal status after 60 poll iterations makes
\* process_user_message return exactly the timeout message, without raising;
\* every status poll counts toward the 60, whether its fetch raised or not,
\* and the loop is never left earlier with the run in a non-terminal status.
C5_TimeoutAfter60Polls ==
    /\ iteration = polls
    /\ pc = "polling" => polls < max_iterations
    /\ \A st \in LiveStatuses :
         PumEndedIn(st) => (polls = max_iterations /\ call.ret = TimeoutMsg)

\* the 60th poll raised, the run was last seen in progress, and the call
\* returned the timeout message
C5_Witness ==
    /\ PumEndedIn("in_progress")
    /\ polls = max_iterations
    /\ call.fetch_raised
    /\ call.ret = TimeoutMsg

\* C6: whenever a poll (the 1st to the 60th) observes the run completed,
\* process_user_message returns the last text of the newest assistant message
\* with text, or "No response received from agent." when there is none; it
\* does not return the timeout message.
C6_CompletedReturnsAnswer ==
    (PumEndedIn("completed") /\ call.iteration \in 1..max_iterations) =>
        /\ call.ret # TimeoutMsg
        /\ call.listing.kind = "listing" =>
             call.ret = ResponseFrom(call.listing.msgs, 1)

\* C7: when the run ends failed, process_user_message returns a string: a
\* message naming the limit category for a rate-limit or quota error, and for
\* every other failure a string that starts "Error processing request:" and
\* carries the raw error.
C7_FailedReturnsMessage ==
    PumEndedIn("failed") =>
        /\ call.ret.kind = "str"
        /\ Len(call.ret.text) > 0
        /\ ~IsRateLimitError(call.run.last_error) =>
             /\ call.ret.text[1] = "Error processing request: "
             /\ call.run.last_error # None =>
                  call.run.last_error.message \in Range(call.ret.text)

\* the lookup of the last get_or_create_thread call succeeded
C8_LookupSucceeded ==
    /\ call.thread_id # NoThread
    /\ call.thread_id \in call.before
    /\ call.get_ok

\* C8: get_or_create_thread does not fail because the given thread_id is
\* unknown: a successful lookup makes that thread current and returns it; a
\* failed lookup, or no thread_id, creates a new thread, makes it current and
\* returns it; the call raises only when the creation itself fails.
C8_ThreadResolved ==
    call.op = "get_or_create_thread" =>
        /\ call.ret.kind = "Thread" => current_thread = call.ret.id
        /\ C8_LookupSucceeded => call.ret = [kind |-> "Thread", id |-> call.thread_id]
        /\ (~C8_LookupSucceeded /\ call.create_ok) =>
              /\ call.ret.kind = "Thread"
              /\ call.ret.id \notin call.before
              /\ call.ret.id \in threads
        /\ call.ret.kind = "raised" => ~call.create_ok

\* an unknown thread_id was given while another thread exists, and a new
\* thread was created and made current
C8_Witness ==
    /\ call.op = "get_or_create_thread"
    /\ call.thread_id = 99
    /\ call.before = {1}
    /\ call.ret.kind = "Thread"
    /\ current_thread = 2

\* C9: the task_id and context_id used by a send_message call that returned
\* a Task are the taskId and contextId of every later dispatch of the same
\* context.
C9_IdsReused ==
    \A i \in 1..Len(dispatches), j \in 1..Len(dispatches) :
        (i < j /\ dispatches[i].ok) =>
            /\ dispatches[j].taskId = dispatches[i].taskId
            /\ dispatches[j].contextId = dispatches[i].contextId

\* the session is set up in context state st
SessionActive(st) ==
    /\ "session_id" \in DOMAIN st
    /\ "session_active" \in DOMAIN st
    /\ st["session_active"] = TRUE

\* C10: after initialize_session the session_id is set and session_active is
\* true, and from then on every step (further initialize_session calls,
\* process_user_message, the dispatches it makes) leaves session_id unchanged
\* and session_active true.
C10_SessionIdempotent ==
    /\ [](call.op = "initialize_session" => SessionActive(state))
    /\ [][SessionActive(state) =>
            (SessionActive(state') /\ state'["session_id"] = state["session_id"])]_vars

\* initialize_session was called again after a turn that dispatched to an agent
C10_Witness ==
    /\ call.op = "initialize_session"
    /\ SessionActive(call.before)
    /\ pc = "returned"
    /\ Len(dispatches) > 0
\* the tool call is one send_message call naming a registered agent
SingleRegisteredCall(r) ==
    /\ r.status = "requires_action"
    /\ Len(r.tool_calls) = 1
    /\ r.tool_calls[1].fn = "send_message"
    /\ DictHas(remote_agent_connections, r.tool_calls[1].args)

\* C11: in a turn whose run requests a single send_message tool call for a
\* registered agent, that tool call is dispatched once: a pass of the poll
\* loop that holds a run whose tool call was already handled makes no further
\* dispatch, whatever the status fetch in between gave.
C11_ToolCallDispatchedOnce ==
    [][(pc = "polling" /\ handled /\ SingleRegisteredCall(run))
          => dispatches' = dispatches]_vars

\* C12: a transport failure of the dispatch to a registered agent makes
\* send_message return a dict with the key "error"; it does not raise.
C12_TransportFailureReturned ==
    (/\ call.op = "send_message"
     /\ call.dispatched = 1
     /\ call.outcome = "transport_error") =>
        /\ call.ret.kind = "dict"
        /\ "error" \in call.ret.keys

\* no tool call of the run carries arguments that json.loads rejects
ArgumentsParse(r) == \A i \in 1..Len(r.tool_calls) : r.tool_calls[i].args # "not json"

C17_ToolOfferedIffRegistered ==
    /\ azure_agent # None =>
         /\ ("send_message" \in azure_agent.tools) <=> (Len(remote_agent_connections) > 0)
         /\ (azure_agent.instructions = "use send_message")
               <=> (Len(remote_agent_connections) > 0)
         /\ Len(remote_agent_connections) = 0 =>
               /\ azure_agent.tools = {}
               /\ azure_agent.instructions = "do NOT use send_message"
    /\ (phase = "initialized" /\ Len(remote_agent_connections) = 0) => dispatches = <<>>

\* the only address failed to resolve, the agent was created, and a turn
\* that went through the poll loop has returned
C17_Witness ==
    /\ Len(addresses) = 1
    /\ Len(remote_agent_connections) = 0
    /\ azure_agent # None
    /\ PumReturned
    /\ polls > 0

\* C18: check_active_agent gives the agent of the most recent dispatch, and
\* "None" while no dispatch was made.
C18_ActiveAgentIsLastDispatched ==
    check_active_agent(state) =
        IF dispatches = <<>> THEN "None" ELSE dispatches[Len(dispatches)].agent
\* the artifact events among evs, in order
RECURSIVE ArtifactEvents(_, _)
ArtifactEvents(evs, i) ==
    IF i > Len(evs) THEN <<>>
    ELSE (IF evs[i].kind = "artifact" THEN <<evs[i]>> ELSE <<>>)
         \o ArtifactEvents(evs, i + 1)

\* C14: of the artifact events of an execute that consumed its partial events
\* without an exception, the first has append=false, every later one has
\* append=true, and exactly one has lastChunk=true.
C14_ArtifactChunking ==
    LET arts == ArtifactEvents(event_queue, 1)
    IN  (call.op = "execute" /\ call.body_raised = None /\ arts # <<>>) =>
            /\ ~arts[1].append
            /\ \A i \in 2..Len(arts) : arts[i].append
            /\ Cardinality({i \in 1..Len(arts) : arts[i].lastChunk}) = 1

\* C15: an exception raised inside execute ends in a failed status event
\* with final=true whose message carries the exception's class name and
\* message, and execute returns normally.
C15_ExceptionBecomesFailedStatus ==
    (call.op = "execute" /\ call.body_raised # None) =>
        /\ call.ret = None
        /\ event_queue # <<>>
        /\ LET last == event_queue[Len(event_queue)]
           IN  /\ last.kind = "status"
               /\ last.state = "failed"
               /\ last.final
               /\ call.body_raised.cls \in Range(last.message)
               /\ call.body_raised.msg \in Range(last.message)

\* the model stream of the last execute gave no text delta and ended normally
ZeroDeltaStream ==
    /\ call.op = "execute"
    /\ call.body_raised = None
    /\ ResolveQuery(call.context) # <<>>
    /\ call.stream_end = "normal"
    /\ \A i \in 1..Len(call.stream) : call.stream[i].data # "ResponseTextDeltaEvent"

\* C16: for a model stream with no text delta that ends normally, execute
\* emits a completed status with the content "Done." and exactly one artifact
\* event, whose text is "Done.".
C16_EmptyStreamGivesDone ==
    ZeroDeltaStream =>
        /\ \E i \in 1..Len(event_queue) :
              /\ event_queue[i].kind = "status"
              /\ event_queue[i].state = "completed"
              /\ event_queue[i].message = <<"Done.">>
        /\ Len(ArtifactEvents(event_queue, 1)) = 1
        /\ ArtifactEvents(event_queue, 1)[1].text = <<"Done.">>
\* every token of the message is white space
WhitespaceOnly(message) == \A i \in 1..Len(message) : message[i] = " "

\* C19: POST /chat with a message that is not blank calls
\* process_user_message once and is answered 200 with the key "response" in
\* the body; a blank message is answered 400 and process_user_message is not
\* called.
C19_ChatEndpoint ==
    request.endpoint = "/chat" =>
        /\ invocations <= 1
        /\ WhitespaceOnly(request.message) => invocations = 0
        /\ response # NoResponse =>
             IF WhitespaceOnly(request.message)
             THEN response.status_code = "400"
             ELSE /\ response.status_code = "200"
                  /\ "response" \in response.keys
                  /\ invocations = 1

\* POST /chat with text after leading white space was answered 200 after a
\* turn that dispatched to a remote agent
C19_Witness ==
    /\ request.endpoint = "/chat"
    /\ request.message = <<" ", "hello">>
    /\ response # NoResponse
    /\ response.status_code = "200"
    /\ Len(dispatches) > 0

FailedAttempts == {i \in Range(call.contacted) : call.answers[i] = "fails"}

\* the first success wins: the attempts are made in the fixed order, up to
\* and including the first that does not fail, and its response is returned
FirstSuccessWins ==
    /\ \E n \in 1..Len(Attempts) : call.contacted = [i \in 1..n |-> i]
    /\ \A i \in 1..Len(call.contacted) - 1 : call.answers[call.contacted[i]] = "fails"
    /\ LET last == call.contacted[Len(call.contacted)]
       IN  IF call.answers[last] # "fails"
           THEN call.ret = SendMessageResponse(call.answers[last], last)
           ELSE /\ Len(call.contacted) = Len(Attempts)
                /\ call.ret.kind = "raised"

\* C21 as amended: the endpoints are tried in the fixed order, the first
\* attempt that succeeds gives the response and no later endpoint is
\* contacted, and when every attempt fails the error raised is that of the
\* first attempt, the nominal endpoint.
C21_FirstFailureRaised ==
    call.op = "connection.send_message" =>
        /\ FirstSuccessWins
        /\ (\A i \in 1..Len(Attempts) : call.answers[i] = "fails")
              => call.ret = AttemptError(1)

\* every endpoint failed: all four attempts were made and the call raised
C21_Witness ==
    /\ call.op = "connection.send_message"
    /\ call.contacted = <<1, 2, 3, 4>>
    /\ FailedAttempts = {1, 2, 3, 4}
    /\ call.ret.kind = "raised"

\* C21 as stated: ... and when every attempt fails the error raised is that
\* of the last failed attempt.
C21_LastFailureRaised ==
    call.op = "connection.send_message" =>
        /\ FirstSuccessWins
        /\ (\A i \in 1..Len(Attempts) : call.answers[i] = "fails")
              => /\ call.ret.kind = "raised"
                 /\ call.ret # AttemptError(1)
\* the last call was a send_message that reached the remote agent
Dispatched == call.op = "send_message" /\ call.dispatched = 1

\* C23: for a registered agent send_message returns None when the response
\* is no success response or its result is no Task, and the Task when the
\* response is a success carrying one.
C23_NoneUnlessTask ==
    Dispatched =>
        /\ call.outcome \in {"non_success", "non_task"} => call.ret = None
        /\ call.outcome \in {"task", "task_no_artifacts"} => call.ret.kind = "Task"

\* the i-th tool call of the handled run was dispatched and the remote agent
\* answered with no success response or with no Task
AnsweredWithoutTask(i) ==
    /\ call.run.tool_calls[i].fn = "send_message"
    /\ DictHas(remote_agent_connections, call.run.tool_calls[i].args)
    /\ call.outcomes[i] \in {"non_success", "non_task"}

\* C24: when the remote agent answers a dispatch with a non-success or
\* non-task response the handler returns normally and the tool output
\* submitted for that call marks it as failed: it is an error output, not the
\* output of a result.
C24_NoTaskGivesErrorOutput ==
    (call.op = "_handle_required_actions" /\ ArgumentsParse(call.run)) =>
        /\ call.ret = None
        /\ \A i \in 1..Len(call.outputs) :
             AnsweredWithoutTask(i) =>
                /\ call.outputs[i].output.json = "object"
                /\ "error" \in call.outputs[i].output.keys

\* C22: the handler of a requires_action run makes one submission, with one
\* tool output per tool call of the run, in the order of the calls and each
\* under the id of its call; the output of a call to an unknown function is
\* an object with the key "error".
C22_OneOutputPerToolCall ==
    call.op = "_handle_required_actions" =>
        /\ call.submitted # "not attempted"
        /\ Len(call.outputs) = Len(call.run.tool_calls)
        /\ \A i \in 1..Len(call.outputs) :
             /\ call.outputs[i].tool_call_id = ToolCallId(call.run.tool_calls, i)
             /\ call.run.tool_calls[i].fn # "send_message" =>
                   /\ call.outputs[i].output.json = "object"
                   /\ "error" \in call.outputs[i].output.keys
\* the last execute resolved a query and its try block raised nothing: the
\* stream of partial events was consumed as far as the method wanted
ReachedStream ==
    /\ call.op = "execute"
    /\ call.body_raised = None
    /\ ResolveQuery(call.context) # <<>>

\* a partial event that ends the task
IsTerminal(p) == p.require_user_input \/ p.is_task_complete

\* the position of the first such event in ps, 0 when there is none
FirstTerminal(ps) ==
    IF \E i \in 1..Len(ps) : IsTerminal(ps[i])
    THEN CHOOSE i \in 1..Len(ps) :
           IsTerminal(ps[i]) /\ \A j \in 1..(i - 1) : ~IsTerminal(ps[j])
    ELSE 0

\* the incremental events of ps before position k whose content has text
ChunksBefore(ps, k) == {i \in 1..(k - 1) : Strip(ps[i].content) # <<>>}

\* the task the events of the last execute belong to, and the number of
\* events that precede the stream: the new task, if any, and the working
\* status
TaskIdOf(ctx) == IF ctx.current_task # NoTask THEN ctx.current_task ELSE "task-1"
StartLen(ctx) == IF ctx.current_task # NoTask THEN 1 ELSE 2

\* no event of evs before the last ends the task or closes an artifact
NothingFinalBeforeLast(evs) ==
    \A i \in 1..(Len(evs) - 1) :
        /\ evs[i].kind = "status" => ~evs[i].final
        /\ evs[i].kind = "artifact" => ~evs[i].lastChunk

\* C25: with an empty resolved query execute enqueues a final input_required
\* status and returns, with no working status and no artifact event.
C25_EmptyQueryAsksForInput ==
    (call.op = "execute" /\ initialized /\ call.fail_at = 0
        /\ ResolveQuery(call.context) = <<>>) =>
        /\ call.ret = None
        /\ event_queue # <<>>
        /\ LET last == event_queue[Len(event_queue)]
           IN  /\ last.kind = "status"
               /\ last.state = "input_required"
               /\ last.final
        /\ \A i \in 1..Len(event_queue) :
              /\ event_queue[i].kind # "artifact"
              /\ event_queue[i].kind = "status" => event_queue[i].state # "working"

C27_CompletionClosesArtifact ==
    LET ps == call.partials
        k  == FirstTerminal(ps)
        n  == Len(event_queue)
    IN  (ReachedStream /\ k > 0 /\ ~ps[k].require_user_input) =>
            /\ call.ret = None
            /\ n = StartLen(call.context) + 2 * Cardinality(ChunksBefore(ps, k)) + 2
            /\ event_queue[n] =
                  StatusEvent("completed", TRUE, NoMessage, TaskIdOf(call.context))
            /\ event_queue[n - 1].kind = "artifact"
            /\ event_queue[n - 1].lastChunk
            /\ event_queue[n - 1].append = (ChunksBefore(ps, k) # {})
            /\ event_queue[n - 1].text # <<>>
            /\ ps[k].content # <<>> => event_queue[n - 1].text = ps[k].content
            /\ \A i \in 1..(n - 2) :
                  /\ event_queue[i].kind = "status" => ~event_queue[i].final
                  /\ event_queue[i].kind = "artifact" =>
                        /\ ~event_queue[i].lastChunk
                        /\ event_queue[i].artifact_id = event_queue[n - 1].artifact_id

\* a chunk, then a completion, then a further partial event: the artifact
\* is closed by an appending event and the queue ends with completed
C27_Witness ==
    /\ ReachedStream
    /\ Len(call.partials) = 3
    /\ FirstTerminal(call.partials) = 2
    /\ call.partials[2].is_task_complete
    /\ ChunksBefore(call.partials, 2) = {1}
    /\ event_queue[Len(event_queue)].state = "completed"
    /\ event_queue[Len(event_queue) - 1].append

\* what the incremental events of ps from the i-th on are to give: for each
\* one with content, a working status and an artifact event with that content
RECURSIVE ChunkEvents(_, _, _, _)
ChunkEvents(ps, i, first, tid) ==
    IF i > Len(ps) \/ IsTerminal(ps[i]) THEN <<>>
    ELSE IF ps[i].content = <<>> THEN ChunkEvents(ps, i + 1, first, tid)
    ELSE <<StatusEvent("working", FALSE, ps[i].content, tid),
           ArtifactEvent(~first, FALSE, ArtifactId, ps[i].content, tid)>>
         \o ChunkEvents(ps, i + 1, FALSE, tid)

\* C28: every incremental partial event with content gives a non-final
\* working status with the chunk and then an artifact event with the same
\* chunk, append=false for the first chunk only; one without content gives
\* nothing.
C28_ChunkGivesStatusAndArtifact ==
    ReachedStream =>
        LET expected == ChunkEvents(call.partials, 1, TRUE, TaskIdOf(call.context))
            from     == StartLen(call.context)
        IN  /\ Len(event_queue) >= from + Len(expected)
            /\ SubSeq(event_queue, from + 1, from + Len(expected)) = expected

\* C29: when the stream of partial events ends and none of them ended the
\* task, execute enqueues a final failed status that says the stream ended
\* unexpectedly, after whatever the chunks gave.
C29_StreamEndFails ==
    LET ps == call.partials
    IN  (ReachedStream /\ FirstTerminal(ps) = 0) =>
            /\ call.ret = None
            /\ Len(event_queue) =
                  StartLen(call.context)
                  + 2 * Cardinality(ChunksBefore(ps, Len(ps) + 1)) + 1
            /\ event_queue[Len(event_queue)] =
                  StatusEvent("failed", TRUE,
                              <<"Stream ended unexpectedly without completion.">>,
                              TaskIdOf(call.context))
            /\ NothingFinalBeforeLast(event_queue)

\* the stream gave two chunks and ended: the artifact holds both and the
\* queue ends with the failed status
C29_Witness ==
    /\ ReachedStream
    /\ FirstTerminal(call.partials) = 0
    /\ Cardinality(ChunksBefore(call.partials, Len(call.partials) + 1)) = 2
    /\ Len(ArtifactEvents(event_queue, 1)) = 2
    /\ event_queue[Len(event_queue)].state = "failed"

\* C30: cancel enqueues one final canceled status for the current task of
\* the request context when there is one, and nothing when there is none.
C30_CancelIffCurrentTask ==
    call.op = "cancel" =>
        /\ call.context.current_task = NoTask => event_queue = <<>>
        /\ call.context.current_task # NoTask =>
              /\ Len(event_queue) = 1
              /\ event_queue[1].kind = "status"
              /\ event_queue[1].state = "canceled"
              /\ event_queue[1].final
              /\ event_queue[1].taskId = call.context.current_task

\* a cancel for a context with a current task, after an execute on the same
\* executor
C30_Witness ==
    /\ call.op = "cancel"
    /\ call.context.current_task = "task-0"
    /\ initialized
    /\ Len(event_queue) = 1
    /\ event_queue[1].state = "canceled"
\* C32: of the artifact events of one execute at most one has append=false,
\* it is the first, and every artifact event carries its artifact id.
C32_OneArtifactPerExecute ==
    call.op = "execute" =>
        LET arts == ArtifactEvents(event_queue, 1)
        IN  /\ Cardinality({i \in 1..Len(arts) : ~arts[i].append}) <= 1
            /\ arts # <<>> => ~arts[1].append
            /\ \A i \in 1..Len(arts) : arts[i].artifact_id = arts[1].artifact_id

\* an execute that created the artifact, appended to it twice and closed it
C32_Witness ==
    /\ call.op = "execute"
    /\ Len(ArtifactEvents(event_queue, 1)) = 4
    /\ ArtifactEvents(event_queue, 1)[4].lastChunk

\* the texts of the text deltas of a model stream that are not empty, and
\* the texts of the artifact events that do not close the artifact
RECURSIVE DeltaTexts(_, _)
DeltaTexts(evs, i) ==
    IF i > Len(evs) THEN <<>>
    ELSE (IF evs[i].data = "ResponseTextDeltaEvent" /\ evs[i].delta # <<>>
          THEN <<evs[i].delta>> ELSE <<>>) \o DeltaTexts(evs, i + 1)

RECURSIVE ChunkTexts(_, _)
ChunkTexts(evs, i) ==
    IF i > Len(evs) THEN <<>>
    ELSE (IF evs[i].kind = "artifact" /\ ~evs[i].lastChunk
          THEN <<evs[i].text>> ELSE <<>>) \o ChunkTexts(evs, i + 1)

\* C33: every text delta of the model stream that is not empty, one of white
\* space included, is one artifact chunk of the task, and the chunks come in
\* the order of the deltas, one artifact event for each.
C33_NoDeltaDropped ==
    ReachedStream => ChunkTexts(event_queue, 1) = DeltaTexts(call.stream, 1)

\* the positions of the status events with final=true in evs
FinalStatuses(evs) == {i \in 1..Len(evs) : evs[i].kind = "status" /\ evs[i].final}

\* C36: every execute enqueues exactly one status event with final=true, as
\* its last event; and one that resolved a query and met no exception
\* enqueues a working status that is not final before any artifact event.
C36_OneFinalStatusLast ==
    call.op = "execute" =>
        /\ FinalStatuses(event_queue) = {Len(event_queue)}
        /\ Len(event_queue) > 0
        /\ ReachedStream =>
              \A i \in 1..Len(event_queue) :
                 event_queue[i].kind = "artifact" =>
                    \E j \in 1..(i - 1) :
                       /\ event_queue[j].kind = "status"
                       /\ event_queue[j].state = "working"
                       /\ ~event_queue[j].final
\* C37: every "agent_start" callback of a send_message call is followed,
\* before the call is over, by an "agent_complete" callback for the same
\* agent, whatever the remote answered.
C37_StartIsCompleted ==
    call.op = "send_message" =>
        \A i \in 1..Len(call.callbacks) :
           call.callbacks[i].status_type = "agent_start" =>
              \E j \in (i + 1)..Len(call.callbacks) :
                 /\ call.callbacks[j].status_type = "agent_complete"
                 /\ call.callbacks[j].agent_name = call.callbacks[i].agent_name
\* C40: cards and remote_agent_connections have the same keys in every
\* state, and once initialization is over no step changes either map.
C40_RegistryFixed ==
    /\ DictKeys(cards) = DictKeys(remote_agent_connections)
    /\ [][/\ DictKeys(cards') = DictKeys(remote_agent_connections')
          /\ phase = "initialized" =>
                /\ cards' = cards
                /\ remote_agent_connections' = remote_agent_connections]_vars

\* two agents are registered and a task was dispatched to one of them
C40_Witness ==
    /\ phase = "initialized"
    /\ Len(cards) = 2
    /\ Len(remote_agent_connections) = 2
    /\ call.op = "send_message"
    /\ call.dispatched = 1
\* the final statuses that end a task
TerminalStates == {"completed", "failed", "canceled"}

\* C31: once a status event with final=true and the state completed, failed
\* or canceled is in the queue of a task, no later status or artifact event
\* for that task is enqueued, however a cancel interleaves with execute.
C31_NothingAfterTerminalStatus ==
    call.op \in {"executing", "executed"} =>
        \A i \in 1..Len(event_queue) :
           (/\ event_queue[i].kind = "status"
            /\ event_queue[i].final
            /\ event_queue[i].state \in TerminalStates)
           => \A j \in (i + 1)..Len(event_queue) :
                 \/ event_queue[j].kind \notin {"status", "artifact"}
                 \/ event_queue[j].taskId # event_queue[i].taskId
\* the dispatches that had returned a Task before the j-th was made, made
\* by the request of the j-th and by the other requests
OwnBefore(j) ==
    {i \in dispatches[j].after :
        dispatches[i].ok /\ dispatches[i].request = dispatches[j].request}

OthersBefore(j) ==
    {i \in dispatches[j].after :
        dispatches[i].ok /\ dispatches[i].request # dispatches[j].request}

C35_SubmittedOnThreadOfRun ==
    \A r \in RequestIds :
       /\ \A k \in 1..Len(handlers[r].submitted) :
             handlers[r].submitted[k].thread_id = handlers[r].submitted[k].run_thread
       /\ (handlers[r].pc = "closed" /\ handlers[r].endpoint = "/chat"
           /\ handlers[r].thread # NoThread)
          => handlers[r].reported = handlers[r].thread

\* C35: tool outputs are submitted under the thread that is current on the
\* instance when the dispatch returns, and /chat reports the thread that is
\* current when the call returns; this is the thread of the run whenever
\* current_thread still is the thread the call set.
C35_SubmittedOnCurrentThread ==
    [][\A r \in RequestIds :
          /\ Len(handlers'[r].submitted) > Len(handlers[r].submitted) =>
                LET sub == handlers'[r].submitted[Len(handlers'[r].submitted)]
                IN  /\ sub.thread_id = current_thread
                    /\ sub.run_thread = handlers[r].thread
                    /\ current_thread = handlers[r].thread
                          => sub.thread_id = sub.run_thread
          /\ (handlers'[r].pc = "closed" /\ handlers[r].pc # "closed"
              /\ handlers'[r].endpoint = "/chat")
             => handlers'[r].reported = current_thread']_vars

\* a /chat request whose outputs went to the thread of the other request
\* and whose response names that thread
C35_Witness ==
    \E r \in RequestIds :
       /\ handlers[r].endpoint = "/chat"
       /\ handlers[r].pc = "closed"
       /\ handlers[r].submitted # <<>>
       /\ handlers[r].submitted[1].thread_id \notin {NoThread, handlers[r].thread}
       /\ handlers[r].reported = handlers[r].submitted[1].thread_id

\* C38 as stated: the queue of a stream request holds only statuses that its
\* own processing caused.
C38_OnlyOwnStatuses ==
    \A r \in DOMAIN status_queues :
       \A i \in 1..Len(status_queues[r]) : status_queues[r][i].cause = r

\* what a step appends to the queue of request r
Added(r) ==
    IF Len(status_queues'[r]) > Len(status_queues[r])
    THEN SubSeq(status_queues'[r], Len(status_queues[r]) + 1, Len(status_queues'[r]))
    ELSE <<>>

\* C38: a status broadcast is delivered to the queue of every stream request
\* in flight: whatever a step puts on one registered queue it puts on all.
C38_BroadcastToEveryQueue ==
    [][\A r, o \in DOMAIN status_queues \cap DOMAIN status_queues' :
          Added(r) = Added(o)]_vars

\* two streams are open and the queue of one holds a status of the other
C38_Witness ==
    /\ DOMAIN status_queues = RequestIds
    /\ \E r \in RequestIds :
          \E i \in 1..Len(status_queues[r]) : status_queues[r][i].cause # r

\* C39: when a stream has ended, every status that was put on its queue was
\* yielded as a status event before the final event, none is left in the
\* queue, and the queue is no longer registered.
C39_EveryStatusDelivered ==
    \A r \in RequestIds :
       (handlers[r].endpoint = "/chat/stream" /\ handlers[r].pc = "closed") =>
          /\ handlers[r].undelivered = <<>>
          /\ r \notin DOMAIN status_queues
=============================================================================
